---- MODULE Spec2Model ----
(***************************************************************************)
(* State-machine model of the SSE streaming client (SSEClient) and of the  *)
(* operation monitor built on it (OperationClient).                        *)
(*                                                                         *)
(* One action is one task of the JavaScript event loop: a call made by the *)
(* caller, a transport callback (onopen / onerror / a typed event / an     *)
(* untyped message) or a timer callback, together with every call the      *)
(* handler makes and with the promise reactions (microtasks) it releases,  *)
(* which the event loop runs before the next task.                         *)
(*                                                                         *)
(* The transport (EventSource) is the browser's: a stream that reported an *)
(* error is either dead (readyState CLOSED) or reconnecting by itself      *)
(* (readyState CONNECTING), and only EventSource.close() silences it.      *)
(***************************************************************************)
EXTENDS Integers, Sequences, FiniteSets, TLC

\* ------------------------------------------------------------------ bounds
MaxRetries   == 1     \* the largest config.maxRetries the reconnect runs use
MaxCallbacks == 1     \* distinct caller-supplied listener functions
MaxClients   == 2     \* monitorOperation calls in one run
MaxAttempts  == 2     \* the largest timeout / pollInterval of a polling wait
MaxLines     == 3     \* lines of one NDJSON response body
MaxCopyRetries == 7   \* the largest maxRetries a copyWithRetry call is given
MaxStreams   == 3     \* EventSource objects one client creates in one run
MaxTimers    == 1     \* pending reconnect timers of one client beyond its maxRetries
MaxConnects  == 2     \* connect() calls the caller makes on one client

\* ------------------------------------------------------- program constants
DefaultMaxRetries == 5
RetryDelay       == 1000
ConnectTimeoutMs == 10000
GraceDelayMs     == 5000
CleanupIntervalMs == 300000
CopyBackoffMs    == 1000
CopyBackoffCapMs == 30000

\* the most EventSource objects one run creates, over all clients
MaxSources == MaxClients * MaxStreams

\* --------------------------------------------------------------- vocabulary
EventType == {"operation_started", "operation_progress", "operation_completed",
              "operation_error", "operation_cancelled", "data_chunk",
              "metadata", "heartbeat", "queue_update"}

SignalKinds == {"connected", "closed", "reconnecting", "max_retries_exceeded",
                "parse_error", "event"}

\* the key of the debug-mode listener, on('*', ...)
Wildcard == "*"

\* further names under which waitForAgentCompletion registers listeners;
\* the stream has no handler that emits them
AgentKinds == {"agent_started", "agent_initialized", "progress",
               "agent_completed", "error"}

\* the keys of a listener map
AllKinds == EventType \cup SignalKinds \cup AgentKinds \cup {Wildcard}

\* the kinds on which the standalone caller registers its own listeners
UserKinds == {"operation_completed", "closed"}

Clients   == 1..MaxClients
OpNames   == <<"op1", "op2", "op3">>
Ops       == {OpNames[i] : i \in Clients}
Callbacks == 1..MaxCallbacks
MonCb     == 0      \* the listener closures monitorOperation registers
ThrowCb   == -1     \* a listener of the caller that throws when it is invoked

\* ------------------------------------------------------- JavaScript values
\* An optional string: undefined, or a string of decimal digits.
Undef  == [def |-> FALSE, s |-> <<>>]
Str(s) == [def |-> TRUE, s |-> s]

\* `x ? a : b` on an optional string: undefined and '' are falsy.
TruthyStr(v) == v.def /\ Len(v.s) > 0

RECURSIVE ParseInt(_)
ParseInt(s) ==
  IF Len(s) = 0 THEN 0
  ELSE 10 * ParseInt(SubSeq(s, 1, Len(s) - 1)) + s[Len(s)]

RECURSIVE Pow2(_)
Pow2(n) == IF n <= 0 THEN 1 ELSE 2 * Pow2(n - 1)

\* Field values of a decoded payload, as tokens; "0" is the number zero.
Truthy(v) == v \notin {"undefined", "0"}
Or(a, b)  == IF Truthy(a) THEN a ELSE b

Fields == {"result", "metadata", "message", "error", "status",
           "progress_percent", "progress", "position", "queue_position",
           "estimated_wait_seconds", "progress_percentage", "graph_id"}
NoData == [f \in Fields |-> "undefined"]
Null   == [null |-> TRUE]

Payloads(kind) ==
  CASE kind = "operation_completed" ->
         {[NoData EXCEPT !["result"] = "r42"], [NoData EXCEPT !["result"] = "0"]}
    [] kind = "operation_error" ->
         {[NoData EXCEPT !["error"] = "boom"], NoData}
    [] kind = "operation_cancelled" ->
         {[NoData EXCEPT !["message"] = "by user"]}
    [] kind = "operation_progress" ->
         {[NoData EXCEPT !["message"] = "50%", !["progress_percent"] = "50"]}
    [] kind = "queue_update" ->
         {[NoData EXCEPT !["queue_position"] = "3", !["estimated_wait_seconds"] = "30"]}
    [] OTHER -> {NoData}

TerminalKinds == {"operation_completed", "operation_error", "operation_cancelled"}

\* event.lastEventId as the handlers read it: '' when the event carries no id
EventIds == {<<>>, <<1, 2>>}
NoIds    == {<<>>}

StartMarkers == {0, 4}

VARIABLES
  sse,              \* per client: the fields of SSEClient
  sources,          \* the EventSource objects, one per connect() call
  timers,           \* pending reconnect timers (setTimeout in handleError)
  sseClients,       \* OperationClient.sseClients: operation id -> client
  cleanupTimeouts,  \* OperationClient.cleanupTimeouts: operation id -> pending
  mon,              \* per client: the monitorOperation call that made it
  hist,             \* per client: history of what happened (observation only)
  calls,            \* the callbacks invoked by the last step, in order
  cleanupInterval,  \* OperationClient.cleanupInterval: its period, 0 when unset
  cancelRequests,   \* per operation id: the server-side cancel request
  ohist,            \* history of the OperationClient calls (observation only)
  multi,            \* the monitorMultiple call: its ids, clients and promise
  call              \* the executor call of the caller: arguments and outcome

vars == <<sse, sources, timers, sseClients, cleanupTimeouts, mon, hist, calls,
          cleanupInterval, cancelRequests, ohist, multi, call>>

\* OperationClient field initialisers and constructor: the sweep interval is
\* started, no cancel request has been sent
NewOHist == [released |-> [op \in Ops |-> FALSE], shut |-> FALSE,
             issuedReleased |-> [op \in Ops |-> TRUE]]

\* no monitorMultiple call has been made
NoMulti == [promise |-> "unused", ids |-> <<>>, clients |-> <<>>,
            result |-> <<>>, reason |-> "-"]

\* no executor call has been made
NoCall == [api |-> "none", phase |-> "idle", env |-> <<>>, opts |-> <<>>,
           client |-> 0, result |-> <<>>, polls |-> 0, path |-> "-",
           waited |-> 0, armed |-> 0]

NewOperationClient ==
  /\ cleanupInterval = CleanupIntervalMs
  /\ cancelRequests = [op \in Ops |-> "none"]
  /\ ohist = NewOHist
  /\ multi = NoMulti
  /\ call = NoCall

\* ------------------------------------------------------------ SSEClient
NoListeners == [k \in AllKinds |-> <<>>]

\* SSEClient field initialisers and constructor
NewClient(maxRetries) ==
  [maxRetries |-> maxRetries, closed |-> FALSE, eventSource |-> 0,
   reconnectAttempts |-> 0, lastEventId |-> Undef, listeners |-> NoListeners]

NewHist == [role |-> "none", connects |-> 0, maxRetriesEmits |-> 0,
            errorsSinceOpen |-> 0, schedSinceOpen |-> 0, lastMarker |-> Undef,
            origStart |-> 0, stale |-> {}, reclosed |-> FALSE, lateEvent |-> FALSE]

\* OperationMonitorOptions: the callbacks a caller may pass
CallbackOptions == {"onQueueUpdate", "onProgress"}

NoMon == [op |-> "-", timeout |-> "none", promise |-> "unused",
          result |-> [success |-> FALSE], cbs |-> {}, reason |-> "-",
          exec |-> "operation"]

\* the executors that wait on a stream of their own SSEClient
Executors == {"query", "agent", "copy"}

SeqHas(q, x) == \E i \in 1..Len(q) : q[i] = x
SeqDel(q, x) == SelectSeq(q, LAMBDA y : y # x)
RemoveAt(q, i) == [j \in 1..(Len(q) - 1) |-> IF j < i THEN q[j] ELSE q[j + 1]]

\* on(event, listener): a Set keeps insertion order and ignores a re-add
OnL(L, kind, cb) ==
  IF SeqHas(L[kind], cb) THEN L ELSE [L EXCEPT ![kind] = Append(@, cb)]

\* off(event, listener)
OffL(L, kind, cb) == [L EXCEPT ![kind] = SeqDel(@, cb)]

\* emit(event, data): the listeners of that kind, in registration order
Emit(L, kind, data) ==
  [i \in 1..Len(L[kind]) |-> [kind |-> kind, cb |-> L[kind][i], data |-> data]]

\* the (kind, listener) registrations a listener map holds
Registered(L) ==
  {p \in AllKinds \X (Callbacks \cup {MonCb, ThrowCb}) : SeqHas(L[p[1]], p[2])}

\* isConnected()
IsConnected(c) ==
  /\ sse[c].eventSource # 0
  /\ sources[sse[c].eventSource].ready = "open"

\* a variant that forgets the cancelled kind
IsTerminalNoCancel(kind) ==
  kind \in {"operation_completed", "operation_error"}

IsTerminal(kind) ==
  kind \in {"operation_completed", "operation_error", "operation_cancelled"}

\* a variant of the budget test that allows one attempt too many
CanRetryInclusive(st) == st.reconnectAttempts <= st.maxRetries

\* handleError: the retry budget test
CanRetry(st) == st.reconnectAttempts < st.maxRetries

\* a variant whose delay grows linearly
DelayLinear(attempt) == RetryDelay * attempt

\* handleError: the backoff delay of the attempt just counted
Delay(attempt) == RetryDelay * Pow2(attempt - 1)

\* handleError's timer callback: where the reconnect resumes
ResumeFrom(lastEventId, fromSequence) ==
  IF TruthyStr(lastEventId) THEN ParseInt(lastEventId.s) + 1 ELSE fromSequence

\* clearTimeout on a timer handle
Cleared(t) == IF t = "pending" THEN "off" ELSE t

\* a variant of close() that keeps the listener map
ClosedStateKeeping(st) ==
  [st EXCEPT !.closed = TRUE, !.eventSource = 0]

\* close(): the fields afterwards
ClosedState(st) ==
  [st EXCEPT !.closed = TRUE, !.eventSource = 0, !.listeners = NoListeners]

\* close(): this.eventSource.close()
CloseSources(srcs, st) ==
  IF st.eventSource # 0
  THEN [srcs EXCEPT ![st.eventSource].ready = "closed"]
  ELSE srcs

\* a variant of close() that clears the listeners before it emits
CloseCallsLate(st) == Emit(NoListeners, "closed", Null)

\* close(): emit('closed', null), to the listeners registered at that moment
CloseCalls(st) == Emit(st.listeners, "closed", Null)

\* history kept at a close(): the registrations it discards
ClosedHist(h, st) ==
  [h EXCEPT !.stale = @ \cup Registered(st.listeners),
            !.reclosed = @ \/ st.closed]

\* ------------------------------------------------- composing handler steps
\* The state a handler works on; `calls` collects the callbacks it invokes.
World == [sse |-> sse, sources |-> sources, timers |-> timers,
          sseClients |-> sseClients, cleanupTimeouts |-> cleanupTimeouts,
          mon |-> mon, hist |-> hist, calls |-> <<>>,
          cleanupInterval |-> cleanupInterval,
          cancelRequests |-> cancelRequests, ohist |-> ohist, multi |-> multi,
          call |-> call]

\* new Map(results): for each id the result of the last pair that names it
ResultMap(w) ==
  LET ids == w.multi.ids
      last(id) == CHOOSE i \in 1..Len(ids) :
                    ids[i] = id /\ \A j \in 1..Len(ids) : ids[j] = id => j <= i
  IN  [id \in {ids[i] : i \in 1..Len(ids)} |-> w.mon[w.multi.clients[last(id)]].result]

\* a variant of Promise.all that fulfils with the first result
AllReactionAny(w) ==
  LET cs == w.multi.clients IN
  IF w.multi.promise # "pending" THEN w.multi
  ELSE IF \E i \in 1..Len(cs) : w.mon[cs[i]].promise = "resolved"
       THEN [w.multi EXCEPT !.promise = "resolved", !.result = ResultMap(w)]
       ELSE w.multi

\* monitorMultiple: Promise.all over the promises of its monitorOperation
\* calls rejects with the first rejection and fulfils once all have resolved
AllReaction(w) ==
  LET cs == w.multi.clients IN
  IF w.multi.promise # "pending" THEN w.multi
  ELSE IF \E i \in 1..Len(cs) : w.mon[cs[i]].promise = "rejected"
       THEN LET i == CHOOSE j \in 1..Len(cs) : w.mon[cs[j]].promise = "rejected"
            IN  [w.multi EXCEPT !.promise = "rejected", !.reason = w.mon[cs[i]].reason]
       ELSE IF \A i \in 1..Len(cs) : w.mon[cs[i]].promise = "resolved"
            THEN [w.multi EXCEPT !.promise = "resolved", !.result = ResultMap(w)]
            ELSE w.multi

\* ------------------------------------------------------- GraphClient
GraphError(message) == [thrown |-> "GraphOperationError", message |-> message]

\* the result object of a completion payload that carries a graph id
GraphResult == "result{graph_id}"

\* result.result?.graph_id of what monitorOperation resolved with
GraphIdOf(r) ==
  IF r.result.of = "data.result"
  THEN IF r.result.data["result"] = GraphResult THEN "g1" ELSE "undefined"
  ELSE r.result.data["graph_id"]

\* waitWithPolling: maxAttempts = Math.floor(timeout / pollInterval)
MaxPollAttempts(k) == k.opts.timeout \div k.opts.pollInterval

\* The time, in ms since the call, of the last timer createGraphAndWait has
\* waited for.  monitorOperation arms its watchdog (timeout ms) and connect()
\* its connection timeout (10000 ms) in the call itself: the promise rejects
\* when the one or the other expires
AfterWatchdog(k, m) ==
  LET ms == IF m.reason = "timeout" THEN k.opts.timeout ELSE ConnectTimeoutMs
  IN  [k EXCEPT !.waited = ms, !.armed = ms]

\* A timer of the stream expires ms after the call while waitWithPolling
\* awaits getOperationStatus: the sleep of the next loop turn is armed when
\* the status has answered, not before that moment.  call.armed is the time
\* the sleep that is pending was armed, or the earliest time the next one can be
TimerFired(w, ms) ==
  IF w.call.api = "graph" /\ w.call.phase = "status" /\ w.call.armed < ms
  THEN [w EXCEPT !.call.armed = ms]
  ELSE w

\* waitWithPolling, entered: with no attempt it throws at once, otherwise it
\* sleeps pollInterval ms
EnterPolling(k) ==
  IF MaxPollAttempts(k) = 0
  THEN [k EXCEPT !.path = "polling", !.phase = "thrown",
                 !.result = GraphError("Graph creation timed out")]
  ELSE [k EXCEPT !.path = "polling", !.phase = "polling"]

\* waitWithSSE after its await, from the result monitorOperation resolved with
AfterMonitor(k, r) ==
  IF ~r.success
    THEN [k EXCEPT !.phase = "thrown",
                   !.result = GraphError(Or(r.error, "Graph creation failed"))]
  ELSE IF ~Truthy(GraphIdOf(r))
    THEN [k EXCEPT !.phase = "thrown",
                   !.result = GraphError("Operation completed but no graph_id in result")]
  ELSE [k EXCEPT !.phase = "returned", !.result = GraphIdOf(r)]

\* a variant of createGraphAndWait whose catch falls back on every error
GraphReactionCatchAll(w) ==
  LET k == w.call
      m == w.mon[k.client]
  IN  IF m.promise = "pending" THEN k
      ELSE IF m.promise = "rejected" THEN EnterPolling(AfterWatchdog(k, m))
      ELSE IF AfterMonitor(k, m.result).phase = "thrown" THEN EnterPolling(k)
      ELSE AfterMonitor(k, m.result)

\* createGraphAndWait once the promise of monitorOperation has settled: the
\* catch rethrows a GraphOperationError and falls back to polling otherwise
GraphReaction(w) ==
  LET k == w.call
      m == w.mon[k.client]
  IN  IF m.promise = "pending" THEN k
      ELSE IF m.promise = "rejected" THEN EnterPolling(AfterWatchdog(k, m))
      ELSE AfterMonitor(k, m.result)

\* -------------------------------------------------------------- CopyClient
\* An error text is the sequence of its characters; the empty sequence stands
\* for an error that is absent or empty (both are falsy in isRetryableError).
NoText == <<>>

ErrorTexts ==
  {NoText,
   <<"T", "i", "m", "e", "o", "u", "t">>,
   <<"R", "a", "t", "e", " ", "L", "i", "m", "i", "t">>,
   <<"t", "h", "r", "o", "t", "t", "l", "e", "d">>,
   <<"d", "e", "n", "i", "e", "d">>}

\* the characters of the error messages the monitoring of a copy ends with
CharsOf(s) ==
  CASE s = "Timeout" -> <<"T", "i", "m", "e", "o", "u", "t">>
    [] s = "denied" -> <<"d", "e", "n", "i", "e", "d">>
    [] s = "Copy operation failed" -> <<"C", "o", "p", "y", " ", "o", "p", "e", "r", "a", "t", "i", "o", "n", " ", "f", "a", "i", "l", "e", "d">>
    [] s = "Copy operation cancelled" -> <<"C", "o", "p", "y", " ", "o", "p", "e", "r", "a", "t", "i", "o", "n", " ", "c", "a", "n", "c", "e", "l", "l", "e", "d">>
    [] s = "Copy operation timeout" -> <<"C", "o", "p", "y", " ", "o", "p", "e", "r", "a", "t", "i", "o", "n", " ", "t", "i", "m", "e", "o", "u", "t">>
    [] s = "Connection timeout" -> <<"C", "o", "n", "n", "e", "c", "t", "i", "o", "n", " ", "t", "i", "m", "e", "o", "u", "t">>
    [] OTHER -> NoText

\* isRetryableError: retryablePatterns
RetryablePatterns ==
  {<<"t", "i", "m", "e", "o", "u", "t">>,
   <<"n", "e", "t", "w", "o", "r", "k">>,
   <<"c", "o", "n", "n", "e", "c", "t", "i", "o", "n">>,
   <<"t", "e", "m", "p", "o", "r", "a", "r", "y">>,
   <<"u", "n", "a", "v", "a", "i", "l", "a", "b", "l", "e">>,
   <<"r", "a", "t", "e", " ", "l", "i", "m", "i", "t">>,
   <<"t", "h", "r", "o", "t", "t", "l">>}

\* String.prototype.toLowerCase over the characters the error texts use
LowerOf(ch) ==
  CASE ch = "T" -> "t"
    [] ch = "R" -> "r"
    [] ch = "L" -> "l"
    [] ch = "C" -> "c"
    [] OTHER -> ch

ToLowerCase(s) == [i \in 1..Len(s) |-> LowerOf(s[i])]

\* String.prototype.includes
Includes(s, p) ==
  \E i \in 0..(Len(s) - Len(p)) : SubSeq(s, i + 1, i + Len(p)) = p

\* CopyClient.isRetryableError(error)
IsRetryableError(error) ==
  IF error = NoText THEN FALSE
  ELSE LET lowerError == ToLowerCase(error)
       IN  \E pattern \in RetryablePatterns : Includes(lowerError, pattern)

\* Math.min(1000 * Math.pow(2, attempt - 1), 30000)
WaitTime(attempt) ==
  IF CopyBackoffMs * Pow2(attempt - 1) < CopyBackoffCapMs
  THEN CopyBackoffMs * Pow2(attempt - 1)
  ELSE CopyBackoffCapMs

NoOutcome == [thrown |-> FALSE, status |-> "-", error |-> NoText]

\* copyWithRetry(graphId, request, sourceType, maxRetries, options): the locals
\* on entry; requests counts the copy requests sent, settled the executeCopy
\* calls that have settled, slept is the wait that ended last, client the
\* SSEClient of the attempt that is being monitored
NewCopy(maxRetries, cbs) ==
  [api |-> "copyWithRetry", phase |-> "entry", maxRetries |-> maxRetries,
   cbs |-> cbs, attempt |-> 0, requests |-> 0, settled |-> 0,
   last |-> NoOutcome, hasLastError |-> FALSE, wait |-> 0, slept |-> 0,
   client |-> 0, result |-> NoOutcome, message |-> "-"]

\* copyFromS3, copyFromUrl, copyFromDataFrame(graphId, request, options): they
\* call executeCopy once, which sends the copy request
NewCopyFrom(cbs) ==
  [NewCopy(0, cbs) EXCEPT !.api = "copy", !.requests = 1, !.phase = "request"]

\* copyWithRetry: the test of the while loop, up to the await of executeCopy
\* or to the throw after the loop
WhileAttempt(k) ==
  IF k.attempt < k.maxRetries
  THEN [k EXCEPT !.attempt = @ + 1, !.requests = @ + 1, !.phase = "request"]
  ELSE [k EXCEPT !.phase = "thrown",
                 !.message = IF k.hasLastError THEN "lastError"
                             ELSE "Copy operation failed after all retries"]

\* options.onProgress?.(message) of the copy executor
CopyProgress(k, message) ==
  IF "onProgress" \in k.cbs
  THEN <<[kind |-> "onProgress", cb |-> MonCb, data |-> message]>>
  ELSE <<>>

\* the message copyWithRetry announces a retry with
RetryMessage(k, text) ==
  [message |-> text, attempt |-> k.attempt, maxRetries |-> k.maxRetries,
   waitTime |-> WaitTime(k.attempt)]

\* copyWithRetry: the body of the loop after executeCopy has settled with r,
\* up to the next await, the return or the throw
AfterExecuteCopy(w, r) ==
  LET k == [w.call EXCEPT !.last = r, !.settled = @ + 1, !.client = 0] IN
  IF r.thrown
  THEN IF k.attempt = k.maxRetries
       THEN [w EXCEPT !.call = [k EXCEPT !.hasLastError = TRUE, !.phase = "thrown",
                                         !.message = "lastError"]]
       ELSE [w EXCEPT !.call = [k EXCEPT !.hasLastError = TRUE, !.phase = "waiting",
                                         !.wait = WaitTime(k.attempt)],
                      !.calls = @ \o CopyProgress(k,
                                  RetryMessage(k, "Retrying after error"))]
  ELSE IF r.status \in {"completed", "partial"}
  THEN [w EXCEPT !.call = [k EXCEPT !.phase = "returned", !.result = r]]
  ELSE IF r.status = "failed"
  THEN IF ~IsRetryableError(r.error) \/ k.attempt = k.maxRetries
       THEN [w EXCEPT !.call = [k EXCEPT !.phase = "returned", !.result = r]]
       ELSE [w EXCEPT !.call = [k EXCEPT !.phase = "waiting",
                                         !.wait = WaitTime(k.attempt)],
                      !.calls = @ \o CopyProgress(k,
                                  RetryMessage(k, "Retrying copy operation"))]
  ELSE [w EXCEPT !.call = WhileAttempt(k)]

\* executeCopy has settled with r: copyWithRetry goes on with its loop body;
\* copyFromS3, copyFromUrl and copyFromDataFrame return the promise of
\* executeCopy, so their call settles as it does
CopySettled(w, r) ==
  IF w.call.api = "copyWithRetry"
  THEN AfterExecuteCopy(w, r)
  ELSE [w EXCEPT !.call = [@ EXCEPT !.last = r, !.settled = @ + 1, !.client = 0,
                                    !.phase = IF r.thrown THEN "thrown" ELSE "returned",
                                    !.result = r]]

\* what executeCopy settles with once the promise of monitorCopyOperation has
\* settled: the CopyResult it resolved with, or the Error it rejected with
MonitoredCopy(m) ==
  IF m.promise = "resolved"
  THEN [thrown |-> FALSE, status |-> m.result.status, error |-> CharsOf(m.result.error)]
  ELSE [thrown |-> TRUE, status |-> "-",
        error |-> CharsOf(IF m.reason = "timeout" THEN "Copy operation timeout"
                          ELSE "Connection timeout")]

\* the promise of monitorCopyOperation, which executeCopy returned, has settled
CopyMonitored(w) ==
  /\ w.call.api \in {"copyWithRetry", "copy"}
  /\ w.call.phase = "monitoring"
  /\ w.mon[w.call.client].promise # "pending"

\* executeQuery returns the promise of waitForQueryCompletion: the call
\* settles as that promise does; createGraphAndWait goes on as above, and
\* copyWithRetry with the loop body after its await of executeCopy
CallReaction(w) ==
  LET k == w.call IN
  IF k.phase = "waiting" /\ k.api = "query" /\ w.mon[k.client].promise # "pending"
  THEN [k EXCEPT !.phase = IF w.mon[k.client].promise = "resolved"
                           THEN "returned" ELSE "thrown",
                 !.result = w.mon[k.client].result]
  ELSE IF k.phase = "sse" /\ k.api = "graph" THEN GraphReaction(w)
  ELSE IF CopyMonitored(w)
    THEN CopySettled(w, MonitoredCopy(w.mon[k.client])).call
  ELSE k

\* the callbacks of the step, those made by the reactions included
ReactionCalls(w) ==
  IF CopyMonitored(w)
  THEN CopySettled(w, MonitoredCopy(w.mon[w.call.client])).calls
  ELSE w.calls

\* a handler has run: its effects, and the promise reactions it released
Commit(w) ==
  /\ sse' = w.sse
  /\ sources' = w.sources
  /\ timers' = w.timers
  /\ sseClients' = w.sseClients
  /\ cleanupTimeouts' = w.cleanupTimeouts
  /\ mon' = w.mon
  /\ hist' = w.hist
  /\ calls' = ReactionCalls(w)
  /\ cleanupInterval' = w.cleanupInterval
  /\ cancelRequests' = w.cancelRequests
  /\ ohist' = w.ohist
  /\ multi' = AllReaction(w)
  /\ call' = CallReaction(w)

DoEmit(w, c, kind, data) ==
  [w EXCEPT !.calls = @ \o Emit(w.sse[c].listeners, kind, data)]

\* SSEClient.close()
DoClose(w, c) ==
  [w EXCEPT !.sse[c] = ClosedState(@),
            !.sources = CloseSources(@, w.sse[c]),
            !.calls = @ \o CloseCalls(w.sse[c]),
            !.hist[c] = ClosedHist(@, w.sse[c])]

\* a variant of cleanupClient that closes a client on one call and drops its
\* registry entry only on the next
DoCleanupClientTwoPhase(w, op) ==
  LET c == w.sseClients[op] IN
  IF c # 0 /\ ~w.sse[c].closed THEN DoClose(w, c)
  ELSE [w EXCEPT !.sseClients[op] = 0, !.cleanupTimeouts[op] = 0]

\* a variant of cleanupClient with one grace timer for all operations
DoCleanupClientUnkeyed(w, op) ==
  LET c  == w.sseClients[op]
      w1 == IF c # 0 THEN [DoClose(w, c) EXCEPT !.sseClients[op] = 0] ELSE w
  IN  [w1 EXCEPT !.cleanupTimeouts = [o \in Ops |-> 0]]

\* OperationClient.cleanupClient(operationId)
DoCleanupClient(w, op) ==
  LET c  == w.sseClients[op]
      w1 == IF c # 0 THEN [DoClose(w, c) EXCEPT !.sseClients[op] = 0] ELSE w
  IN  [w1 EXCEPT !.cleanupTimeouts[op] = 0]

\* a variant of scheduleCleanup that releases the connection at once
DoScheduleCleanupNow(w, op, delayMs) == DoCleanupClient(w, op)

\* OperationClient.scheduleCleanup(operationId, delayMs)
DoScheduleCleanup(w, op, delayMs) == [w EXCEPT !.cleanupTimeouts[op] = delayMs]

\* isConnected() of client c in the state a handler works on
IsConnectedIn(w, c) ==
  /\ w.sse[c].eventSource # 0
  /\ w.sources[w.sse[c].eventSource].ready = "open"

\* cancelOperation: cancelOperationSDK(...) is called; the history keeps
\* whether the local release had been made when the request went out
DoCancelRequest(w, op) ==
  [w EXCEPT !.cancelRequests[op] = "pending",
            !.ohist.issuedReleased[op] =
                w.sseClients[op] = 0 /\ w.cleanupTimeouts[op] = 0]

\* a variant of cancelOperation that asks the server and releases nothing
DoCancelServerOnly(w, op) == DoCancelRequest(w, op)

\* OperationClient.cancelOperation(operationId), up to its await
DoCancelOperation(w, op) == DoCancelRequest(DoCleanupClient(w, op), op)

\* a variant of the sweep that releases every entry
RECURSIVE SweepAll(_, _)
SweepAll(w, n) ==
  IF n = 0 THEN w ELSE DoCleanupClient(SweepAll(w, n - 1), OpNames[n])

\* OperationClient.performPeriodicCleanup(): the entries of the registry in
\* turn; the first n operation ids
RECURSIVE SweepEach(_, _)
SweepEach(w, n) ==
  IF n = 0 THEN w
  ELSE LET w1 == SweepEach(w, n - 1)
           op == OpNames[n]
           c  == w1.sseClients[op]
       IN  IF c # 0 /\ ~IsConnectedIn(w1, c)
           THEN DoCleanupClient(w1, op)
           ELSE w1

\* closeAll(): this.sseClients.forEach(cleanupClient), the first n ids
RECURSIVE CleanupEach(_, _)
CleanupEach(w, n) ==
  IF n = 0 THEN w ELSE DoCleanupClient(CleanupEach(w, n - 1), OpNames[n])

\* a variant of closeAll() that leaves the sweep running
DoCloseAllKeepSweep(w) ==
  CleanupEach([w EXCEPT !.cleanupTimeouts = [op \in Ops |-> 0]], MaxClients)

\* OperationClient.closeAll()
DoCloseAll(w) ==
  LET w1 == [w EXCEPT !.cleanupInterval = 0,
                      !.cleanupTimeouts = [op \in Ops |-> 0]]
  IN  CleanupEach(w1, MaxClients)

\* resolve(result) / reject(error) of the promise monitorOperation returned
Settle(m, how, result, reason) ==
  IF m.promise = "pending"
  THEN [m EXCEPT !.promise = how, !.result = result, !.reason = reason]
  ELSE m

\* a variant in which a failure result also carries the payload as result
MonResultBoth(kind, d) ==
  IF kind = "operation_completed"
  THEN [success |-> TRUE, result |-> [of |-> "data", data |-> d],
        metadata |-> [v |-> d["metadata"]]]
  ELSE [success |-> FALSE, result |-> [of |-> "data", data |-> d],
        error |-> "Operation failed", metadata |-> d]

\* the OperationResult each terminal listener of monitorOperation builds
MonResult(kind, d) ==
  CASE kind = "operation_completed" ->
         [success |-> TRUE,
          result |-> [of |-> IF Truthy(d["result"]) THEN "data.result" ELSE "data",
                      data |-> d],
          metadata |-> [v |-> d["metadata"]]]
    [] kind = "operation_error" ->
         [success |-> FALSE,
          error |-> Or(d["message"], Or(d["error"], "Operation failed")),
          metadata |-> [v |-> d["metadata"]]]
    [] OTHER ->
         [success |-> FALSE, error |-> "Operation cancelled", metadata |-> d]

\* how the terminal listeners of the executors settle their promise:
\* waitForQueryCompletion, waitForAgentCompletion, monitorCopyOperation
ExecSettles(exec, kind) ==
  IF exec = "copy" \/ kind = "operation_completed" THEN "resolved" ELSE "rejected"

\* the result or the Error they settle it with; the CopyResult takes its
\* status from completionData = data.result || data, and a result that is
\* present is a value without a status of its own
ExecResult(exec, kind, d) ==
  CASE kind = "operation_completed" /\ exec = "copy" ->
         [of |-> exec, data |-> IF Truthy(d["result"]) THEN "data.result" ELSE "data",
          status |-> IF Truthy(d["result"]) THEN "completed"
                     ELSE Or(d["status"], "completed"),
          error |-> "undefined"]
    [] kind = "operation_completed" ->
         [of |-> exec, data |-> IF Truthy(d["result"]) THEN "data.result" ELSE "data"]
    [] kind = "operation_error" /\ exec = "copy" ->
         [status |-> "failed",
          error |-> Or(d["message"], Or(d["error"], "Copy operation failed"))]
    [] kind = "operation_error" ->
         [thrown |-> "Error", message |-> Or(d["message"], d["error"])]
    [] exec = "copy" ->
         [status |-> "failed", error |-> "Copy operation cancelled"]
    [] exec = "query" ->
         [thrown |-> "Error", message |-> "Query cancelled"]
    [] OTHER ->
         [thrown |-> "Error", message |-> "Agent execution cancelled"]

\* the listeners the executors register once connect() has resolved
ExecListener(w, c, kind, d) ==
  LET exec == w.mon[c].exec IN
  CASE kind = "queue_update" ->
         IF "onQueueUpdate" \notin w.mon[c].cbs THEN w
         ELSE [w EXCEPT !.calls = Append(@,
                 [kind |-> "onQueueUpdate", cb |-> MonCb,
                  data |-> IF exec = "copy"
                           THEN [position |-> Or(d["position"], d["queue_position"]),
                                 estimatedWait |-> Or(d["estimated_wait_seconds"], "0")]
                           ELSE [position |-> d["position"],
                                 estimatedWait |-> d["estimated_wait_seconds"]]])]
    [] kind = "operation_progress" ->
         IF "onProgress" \notin w.mon[c].cbs THEN w
         ELSE [w EXCEPT !.calls = Append(@,
                 [kind |-> "onProgress", cb |-> MonCb,
                  data |-> CASE exec = "copy" ->
                                  [message |-> Or(d["message"], Or(d["status"], "Processing...")),
                                   progressPercent |-> Or(d["progress_percent"], d["progress"])]
                             [] exec = "agent" ->
                                  [message |-> d["message"],
                                   progressPercent |-> d["progress_percentage"]]
                             [] OTHER -> [message |-> d["message"]]])]
    [] OTHER ->
         LET w1 == IF exec = "copy" THEN [w EXCEPT !.mon[c].timeout = Cleared(@)] ELSE w
             w2 == DoClose(w1, c)
         IN  [w2 EXCEPT !.mon[c] =
                Settle(@, ExecSettles(exec, kind), ExecResult(exec, kind, d), kind)]

\* the .then() reaction of connect() in the executors
ExecThen(w, c) ==
  LET exec == w.mon[c].exec
      L0 == w.sse[c].listeners
      L1 == IF exec = "agent" THEN L0 ELSE OnL(L0, "queue_update", MonCb)
      L2 == OnL(L1, "operation_progress", MonCb)
      L3 == OnL(OnL(OnL(L2, "operation_completed", MonCb),
                    "operation_error", MonCb), "operation_cancelled", MonCb)
      L4 == IF exec = "agent"
            THEN OnL(OnL(OnL(OnL(OnL(L3, "agent_started", MonCb),
                                 "agent_initialized", MonCb), "progress", MonCb),
                         "agent_completed", MonCb), "error", MonCb)
            ELSE L3
  IN  [w EXCEPT !.sse[c].listeners = L4,
                !.hist[c].stale = @ \ Registered(L4)]

\* the .catch() reaction of connect() in the executors
ExecCatch(w, c) ==
  [w EXCEPT !.mon[c] = Settle([@ EXCEPT !.timeout = Cleared(@)], "rejected",
                              [thrown |-> "Error", message |-> "connect"], "connect")]

\* a variant whose operation_error listener rejects the promise
MonListenerRejecting(w, c, kind, d) ==
  IF kind \in {"queue_update", "operation_progress"} THEN w
  ELSE LET w1 == [w EXCEPT !.mon[c].timeout = Cleared(@)]
           w2 == DoScheduleCleanup(w1, w.mon[c].op, GraceDelayMs)
       IN  [w2 EXCEPT !.mon[c] =
              Settle(@, IF kind = "operation_error" THEN "rejected" ELSE "resolved",
                     MonResult(kind, d), kind)]

\* the listeners monitorOperation registers once connect() has resolved
MonListener(w, c, kind, d) ==
  LET op == w.mon[c].op IN
  CASE w.mon[c].exec \in Executors -> ExecListener(w, c, kind, d)
    [] kind = "queue_update" ->
         [w EXCEPT !.calls = Append(@,
            [kind |-> "onQueueUpdate", cb |-> MonCb,
             data |-> [position |-> Or(d["position"], d["queue_position"]),
                       estimatedWait |-> Or(d["estimated_wait_seconds"], "0")]])]
    [] kind = "operation_progress" ->
         [w EXCEPT !.calls = Append(@,
            [kind |-> "onProgress", cb |-> MonCb,
             data |-> [message |-> Or(d["message"], Or(d["status"], "Processing...")),
                       progressPercent |-> Or(d["progress_percent"], d["progress"]),
                       details |-> d]])]
    [] OTHER ->
         LET w1 == [w EXCEPT !.mon[c].timeout = Cleared(@)]
             w2 == DoScheduleCleanup(w1, op, GraceDelayMs)
         IN  [w2 EXCEPT !.mon[c] = Settle(@, "resolved", MonResult(kind, d), kind)]

\* monitorOperation: the .then() reaction of connect()
MonThen(w, c) ==
  LET L0 == w.sse[c].listeners
      Lq == IF "onQueueUpdate" \in w.mon[c].cbs
            THEN OnL(L0, "queue_update", MonCb)
            ELSE L0
      L1 == IF "onProgress" \in w.mon[c].cbs
            THEN OnL(Lq, "operation_progress", MonCb)
            ELSE Lq
      L2 == OnL(OnL(OnL(L1, "operation_completed", MonCb),
                    "operation_error", MonCb), "operation_cancelled", MonCb)
  IN  IF w.mon[c].exec \in Executors THEN ExecThen(w, c)
      ELSE [w EXCEPT !.sse[c].listeners = L2,
                     !.hist[c].stale = @ \ Registered(L2)]

\* a variant whose .catch() resolves with a failure result
MonCatchResolving(w, c) ==
  LET w1 == [w EXCEPT !.mon[c].timeout = Cleared(@)]
      w2 == DoCleanupClient(w1, w.mon[c].op)
  IN  IF w.mon[c].exec \in Executors THEN ExecCatch(w, c)
      ELSE [w2 EXCEPT !.mon[c] =
              Settle(@, "resolved", [success |-> FALSE, error |-> "connect"], "connect")]

\* a variant of the .catch() reaction that leaves the monitoring timer running
MonCatchKeepingTimer(w, c) ==
  LET w2 == DoCleanupClient(w, w.mon[c].op)
  IN  IF w.mon[c].exec \in Executors THEN ExecCatch(w, c)
      ELSE [w2 EXCEPT !.mon[c] = Settle(@, "rejected", [success |-> FALSE], "connect")]

\* monitorOperation: the .catch() reaction of connect()
MonCatch(w, c) ==
  LET w1 == [w EXCEPT !.mon[c].timeout = Cleared(@)]
      w2 == DoCleanupClient(w1, w.mon[c].op)
  IN  IF w.mon[c].exec \in Executors THEN ExecCatch(w, c)
      ELSE [w2 EXCEPT !.mon[c] = Settle(@, "rejected", [success |-> FALSE], "connect")]

\* the EventSource objects client c has created, and its reconnect timers
\* that are pending
Streams(c) == Cardinality({s \in 1..Len(sources) : sources[s].client = c})
Pending(c) == Cardinality({i \in 1..Len(timers) : timers[i].client = c})

\* ------------------------------------------------------ SSEClient handlers
\* connect(operationId, fromSequence): the new EventSource, its connection
\* timeout and the promise returned; `cont` is who awaits the promise, and
\* `want` the starting marker the resumption rule asks of this stream.  The
\* promise of a reconnect is dropped by its caller (.catch(() => {})): how it
\* settles is observed by nobody and is not recorded.
NewSource(c, fromSequence, cont, want) ==
  [client |-> c, from |-> fromSequence, ready |-> "connecting",
   timer |-> "pending", delay |-> ConnectTimeoutMs,
   promise |-> IF cont = "reconnect" THEN "unobserved" ELSE "pending",
   cont |-> cont, want |-> want]

DoConnect(w, c, fromSequence, cont, want) ==
  [w EXCEPT !.sources = Append(@, NewSource(c, fromSequence, cont, want)),
            !.sse[c].eventSource = Len(w.sources) + 1]

\* eventSource.onopen
OnOpen(w, s) ==
  LET c  == w.sources[s].client
      w1 == [w EXCEPT !.sources[s].ready = "open",
                      !.sources[s].timer = Cleared(@),
                      !.sources[s].promise = IF @ = "pending" THEN "resolved" ELSE @,
                      !.sse[c].reconnectAttempts = 0,
                      !.hist[c].errorsSinceOpen = 0,
                      !.hist[c].schedSinceOpen = 0]
      w2 == DoEmit(w1, c, "connected", Null)
  IN  IF w.sources[s].promise = "pending" /\ w.sources[s].cont = "monitor"
      THEN MonThen(w2, c)
      ELSE w2

\* handleError(error, operationId, fromSequence)
HandleError(w, c, fromSequence) ==
  LET st == w.sse[c] IN
  IF st.closed THEN w
  ELSE IF CanRetry(st)
  THEN LET n  == st.reconnectAttempts + 1
           w1 == [w EXCEPT !.sse[c].reconnectAttempts = n,
                           !.hist[c].errorsSinceOpen = @ + 1,
                           !.hist[c].schedSinceOpen = @ + 1]
           w2 == DoEmit(w1, c, "reconnecting",
                        [attempt |-> n, delay |-> Delay(n),
                         lastEventId |-> st.lastEventId])
       IN  [w2 EXCEPT !.timers = Append(@,
              [client |-> c, from |-> fromSequence, delay |-> Delay(n),
               attempt |-> w.hist[c].errorsSinceOpen + 1,
               marker |-> w.hist[c].lastMarker])]
  ELSE LET w1 == [w EXCEPT !.hist[c].errorsSinceOpen = @ + 1,
                           !.hist[c].maxRetriesEmits = @ + 1]
           w2 == DoEmit(w1, c, "max_retries_exceeded", [type |-> "error"])
       IN  DoClose(w2, c)

\* eventSource.onerror
OnError(w, s, fatal) ==
  LET c  == w.sources[s].client
      w1 == [w EXCEPT !.sources[s].timer = Cleared(@),
                      !.sources[s].ready = IF fatal THEN "closed" ELSE "connecting"]
  IN  IF ~w.sse[c].closed THEN HandleError(w1, c, w.sources[s].from) ELSE w1

\* the marker the history keeps: that of the last decoded event carrying one
Marked(h, id) == IF Len(id) > 0 THEN [h EXCEPT !.lastMarker = Str(id)] ELSE h

\* history: a decoded typed event reached a client that was already closed
Late(h, st) == IF st.closed THEN [h EXCEPT !.lateEvent = TRUE] ELSE h

\* a variant of handleTypedEvent whose completion check stands after the
\* try block, so that it also runs for an undecodable payload
HandleTypedEventCheckAfter(w, c, kind, ok, id, d) ==
  LET w1 == [w EXCEPT !.sse[c].lastEventId = Str(id),
                      !.hist[c] = Late(Marked(@, id), w.sse[c])]
      w2 == DoEmit(w1, c, kind, d)
      w3 == IF SeqHas(w.sse[c].listeners[kind], MonCb)
            THEN MonListener(w2, c, kind, d)
            ELSE w2
      w4 == IF ok THEN w3
            ELSE DoEmit(w, c, "parse_error", [rawData |-> "malformed"])
  IN  IF IsTerminal(kind) THEN DoClose(w4, c) ELSE w4

\* emit(eventType, data) inside the try block of handleTypedEvent when a
\* listener of the kind throws: forEach stops at that listener, the rest of
\* the try block is skipped and the catch emits 'parse_error'
EmitThrowing(w, c, kind, d) ==
  LET L  == w.sse[c].listeners[kind]
      n  == CHOOSE i \in 1..Len(L) :
              L[i] = ThrowCb /\ \A j \in 1..(i - 1) : L[j] # ThrowCb
      w1 == [w EXCEPT !.calls = @ \o SubSeq(Emit(w.sse[c].listeners, kind, d), 1, n)]
      w2 == IF SeqHas(SubSeq(L, 1, n), MonCb) THEN MonListener(w1, c, kind, d) ELSE w1
  IN  DoEmit(w2, c, "parse_error", [rawData |-> "wellformed"])

\* handleTypedEvent(eventType, event); ok = JSON.parse(event.data) succeeds
HandleTypedEvent(w, c, kind, ok, id, d) ==
  IF ~ok THEN DoEmit(w, c, "parse_error", [rawData |-> "malformed"])
  ELSE LET w1 == [w EXCEPT !.sse[c].lastEventId = Str(id),
                           !.hist[c] = Late(Marked(@, id), w.sse[c])]
           w2 == DoEmit(w1, c, kind, d)
           w3 == IF SeqHas(w.sse[c].listeners[kind], MonCb)
                 THEN MonListener(w2, c, kind, d)
                 ELSE w2
       IN  IF SeqHas(w.sse[c].listeners[kind], ThrowCb)
           THEN EmitThrowing(w1, c, kind, d)
           ELSE IF IsTerminal(kind) THEN DoClose(w3, c) ELSE w3

\* handleMessage(event)
HandleMessage(w, c, ok, id, d) ==
  IF ~ok THEN DoEmit(w, c, "parse_error", [rawData |-> "malformed"])
  ELSE LET w1 == [w EXCEPT !.sse[c].lastEventId = Str(id),
                           !.hist[c] = Marked(@, id)]
       IN  DoEmit(w1, c, "event", [event |-> "message", data |-> d, id |-> id])

\* the connection timeout set in connect()
OnConnectTimeout(w, s) ==
  LET c  == w.sources[s].client
      w1 == [w EXCEPT !.sources[s].timer = "off",
                      !.sources[s].promise = IF @ = "pending" THEN "rejected" ELSE @]
      w2 == DoClose(w1, c)
  IN  IF w.sources[s].promise = "pending" /\ w.sources[s].cont = "monitor"
      THEN MonCatch(w2, c)
      ELSE w2

\* the reconnect timer set in handleError
OnReconnectTimer(w, i) ==
  LET t  == w.timers[i]
      c  == t.client
      w1 == [w EXCEPT !.timers = RemoveAt(@, i)]
      want == IF t.marker.def THEN ParseInt(t.marker.s) + 1
              ELSE w.hist[c].origStart
  IN  DoConnect(w1, c, ResumeFrom(w.sse[c].lastEventId, t.from), "reconnect", want)

\* ------------------------------------------------------------------ actions
\* the caller: connect(operationId, fromSequence) on the standalone client,
\* at any moment, also again and on a client that has been closed
Connect(c, fromSequence) ==
  /\ hist[c].role = "sse"
  /\ hist[c].connects < MaxConnects
  /\ Streams(c) < MaxStreams
  /\ Commit([DoConnect(World, c, fromSequence, "user", fromSequence)
               EXCEPT !.hist[c].connects = @ + 1,
                      !.hist[c].origStart = fromSequence])

\* the caller: on(event, listener)
On(c, kind, cb) ==
  /\ hist[c].role = "sse"
  /\ ~SeqHas(sse[c].listeners[kind], cb)
  /\ Commit([World EXCEPT !.sse[c].listeners = OnL(@, kind, cb),
                          !.hist[c].stale = @ \ {<<kind, cb>>}])

\* the caller: off(event, listener)
Off(c, kind, cb) ==
  /\ hist[c].role = "sse"
  /\ SeqHas(sse[c].listeners[kind], cb)
  /\ Commit([World EXCEPT !.sse[c].listeners = OffL(@, kind, cb)])

\* the caller: close()
Close(c) ==
  /\ hist[c].role = "sse"
  /\ Commit(DoClose(World, c))

\* the transport signals open
SrcOpen(s) ==
  /\ s \in 1..Len(sources)
  /\ sources[s].ready = "connecting"
  /\ Commit(OnOpen(World, s))

\* the transport reports an error; a fatal one ends the stream.  One run of
\* failures arms up to maxRetries timers; a stream that opens resets the
\* count, so that more can be pending: at most MaxTimers more.
SrcError(s, fatal) ==
  /\ s \in 1..Len(sources)
  /\ sources[s].ready # "closed"
  /\ LET c == sources[s].client IN
     (~sse[c].closed /\ sse[c].reconnectAttempts < sse[c].maxRetries)
       => Pending(c) < sse[c].maxRetries + MaxTimers
  /\ Commit(OnError(World, s, fatal))

\* the transport delivers an event of one of the typed kinds
SrcTyped(s, kind, ok, id, d) ==
  /\ s \in 1..Len(sources)
  /\ sources[s].ready = "open"
  /\ Commit(HandleTypedEvent(World, sources[s].client, kind, ok, id, d))

\* the transport delivers an untyped message
SrcMessage(s, ok, id) ==
  /\ s \in 1..Len(sources)
  /\ sources[s].ready = "open"
  /\ Commit(HandleMessage(World, sources[s].client, ok, id, NoData))

\* the connection timeout of one connect() call expires
ConnectTimeout(s) ==
  /\ s \in 1..Len(sources)
  /\ sources[s].timer = "pending"
  /\ Commit(TimerFired(OnConnectTimeout(World, s), ConnectTimeoutMs))

\* a reconnect backoff timer expires
ReconnectTimer(i) ==
  /\ i \in 1..Len(timers)
  /\ Streams(timers[i].client) < MaxStreams
  /\ Commit(OnReconnectTimer(World, i))

\* the streams and the timers, without the events: a transport that opens
\* and fails any number of times
Link ==
  \/ \E s \in 1..MaxSources : SrcOpen(s)
  \/ \E s \in 1..MaxSources, fatal \in BOOLEAN : SrcError(s, fatal)
  \/ \E s \in 1..MaxSources : ConnectTimeout(s)
  \/ \E i \in 1..MaxSources : ReconnectTimer(i)

\* a caller that connects once, on a client it has not closed
FirstConnect(c, fromSequence) ==
  /\ hist[c].connects = 0
  /\ ~sse[c].closed
  /\ Connect(c, fromSequence)

\* a caller that connects once, at any moment, also after close()
ConnectOnce(c, fromSequence) ==
  /\ hist[c].connects = 0
  /\ Connect(c, fromSequence)

\* what the transport and the timers may do; the events delivered carry a
\* kind of `kinds` and a lastEventId of `ids`
Transport(kinds, ids) ==
  \/ Link
  \/ \E s \in 1..MaxSources, kind \in kinds, id \in ids :
        \E d \in Payloads(kind) : SrcTyped(s, kind, TRUE, id, d)
  \/ \E s \in 1..MaxSources, kind \in kinds :
        SrcTyped(s, kind, FALSE, <<>>, NoData)
  \/ \E s \in 1..MaxSources, id \in ids : SrcMessage(s, TRUE, id)
  \/ \E s \in 1..MaxSources : SrcMessage(s, FALSE, <<>>)

\* the streams and the timers, with decodable events of `kinds` that carry no id
Delivery(kinds) ==
  \/ Link
  \/ \E s \in 1..MaxSources, kind \in kinds :
        \E d \in Payloads(kind) : SrcTyped(s, kind, TRUE, <<>>, d)

\* ------------------------------------------------ OperationClient actions
\* the client object the next monitorOperation call constructs
FreeClient(w) == CHOOSE c \in Clients :
                   /\ w.hist[c].role = "none"
                   /\ \A b \in Clients : w.hist[b].role = "none" => c <= b

\* monitorOperation(operationId, options), up to its await of connect()
DoMonitorOperation(w, op, withTimeout, cbs) ==
  LET c  == FreeClient(w)
      w1 == [w EXCEPT
               !.sseClients[op] = c,
               !.hist[c].role = "monitor",
               !.hist[c].connects = 1,
               !.ohist.released[op] = FALSE,
               !.ohist.shut = FALSE,
               !.mon[c] = [NoMon EXCEPT
                             !.op = op,
                             !.timeout = IF withTimeout THEN "pending" ELSE "none",
                             !.promise = "pending",
                             !.cbs = cbs]]
  IN  DoConnect(w1, c, 0, "monitor", 0)

\* waitForQueryCompletion, waitForAgentCompletion, monitorCopyOperation, up
\* to the await of connect(): a client of their own, outside the registry;
\* the copy executor always arms a timeout
DoExecutorWait(w, exec, op, cbs) ==
  LET c  == FreeClient(w)
      w1 == [w EXCEPT
               !.hist[c].role = "monitor",
               !.hist[c].connects = 1,
               !.mon[c] = [NoMon EXCEPT
                             !.op = op,
                             !.exec = exec,
                             !.timeout = IF exec = "copy" THEN "pending" ELSE "none",
                             !.promise = "pending",
                             !.cbs = cbs]]
  IN  DoConnect(w1, c, 0, "monitor", 0)

\* an executor starts to wait for the operation the server queued
ExecutorWait(exec, op, cbs) ==
  /\ \E c \in Clients : hist[c].role = "none"
  /\ Commit(DoExecutorWait(World, exec, op, cbs))

\* ------------------------------------------- QueryClient.parseNDJSONResponse
\* The text of a response body is a sequence of characters: "nl" is the
\* newline, "sp" a blank, "{" and "}" open and close the JSON text of a chunk,
\* whose content stands between them as one character.
ChunkOf ==
  [c1 |-> [hasColumns |-> TRUE, columns |-> <<"a">>, hasRows |-> TRUE,
           rows |-> <<"r1">>, hasData |-> FALSE, data |-> <<>>, time |-> 5],
   c2 |-> [hasColumns |-> TRUE, columns |-> <<"b">>, hasRows |-> FALSE,
           rows |-> <<>>, hasData |-> TRUE, data |-> <<"r2", "r3">>, time |-> 9],
   c3 |-> [hasColumns |-> FALSE, columns |-> <<>>, hasRows |-> TRUE,
           rows |-> <<"r4">>, hasData |-> TRUE, data |-> <<"r5">>, time |-> 0]]

\* the lines a server may send: a chunk, a truncated chunk, a blank line
LineKinds == {"c1", "c2", "c3", "bad", "blank"}

LineText(kind) ==
  CASE kind = "bad"   -> <<"{", "c1">>
    [] kind = "blank" -> <<"sp">>
    [] OTHER          -> <<"{", kind, "}">>

\* the body: the lines, each ended by a newline, the last one only if `ended`
RECURSIVE BodyText(_, _)
BodyText(lines, ended) ==
  IF Len(lines) = 0 THEN <<>>
  ELSE LET last == LineText(lines[Len(lines)]) \o (IF ended THEN <<"nl">> ELSE <<>>)
       IN  BodyText(SubSeq(lines, 1, Len(lines) - 1), TRUE) \o last

\* buffer.split('\n')
RECURSIVE SplitLines(_)
SplitLines(text) ==
  IF \A i \in 1..Len(text) : text[i] # "nl" THEN <<text>>
  ELSE LET i == CHOOSE j \in 1..Len(text) :
                  text[j] = "nl" /\ \A h \in 1..(j - 1) : text[h] # "nl"
       IN  <<SubSeq(text, 1, i - 1)>> \o SplitLines(SubSeq(text, i + 1, Len(text)))

\* line.trim() is empty
IsBlank(line) == \A i \in 1..Len(line) : line[i] = "sp"

\* JSON.parse(line)
ParseLine(line) ==
  IF Len(line) = 3 /\ line[1] = "{" /\ line[3] = "}" /\ line[2] \in DOMAIN ChunkOf
  THEN [ok |-> TRUE, chunk |-> ChunkOf[line[2]]]
  ELSE [ok |-> FALSE]

Max(a, b) == IF a >= b THEN a ELSE b

\* the body of the try block: one parsed chunk added to the aggregate
AddChunk(st, chunk) ==
  LET s1 == IF ~st.hasColumns /\ chunk.hasColumns
            THEN [st EXCEPT !.hasColumns = TRUE, !.columns = chunk.columns]
            ELSE st
      s2 == IF chunk.hasRows
            THEN [s1 EXCEPT !.allData = @ \o chunk.rows,
                            !.totalRows = @ + Len(chunk.rows)]
            ELSE IF chunk.hasData
            THEN [s1 EXCEPT !.allData = @ \o chunk.data,
                            !.totalRows = @ + Len(chunk.data)]
            ELSE s1
  IN  IF chunk.time # 0
      THEN [s2 EXCEPT !.executionTimeMs = Max(@, chunk.time)]
      ELSE s2

\* JSON.parse and the try/catch around it, for the line numbered st.lineNumber
TryLine(st, line) ==
  IF ParseLine(line).ok THEN AddChunk(st, ParseLine(line).chunk)
  ELSE [st EXCEPT !.parseErrors = Append(@, st.lineNumber)]

\* one turn of `for (const line of lines)`
Absorb(st, line) ==
  LET s1 == [st EXCEPT !.lineNumber = @ + 1]
  IN  IF IsBlank(line) THEN s1 ELSE TryLine(s1, line)

RECURSIVE AbsorbAll(_, _, _)
AbsorbAll(st, lines, n) ==
  IF n = 0 THEN st ELSE Absorb(AbsorbAll(st, lines, n - 1), lines[n])

\* a variant of the read loop that parses every piece of a read as it comes
FeedNoCarry(st, piece) ==
  LET lines == SplitLines(piece)
  IN  [AbsorbAll(st, lines, Len(lines)) EXCEPT !.buffer = <<>>]

\* one turn of the read loop, on the text of one read
Feed(st, piece) ==
  LET lines == SplitLines(st.buffer \o piece)
  IN  [AbsorbAll(st, lines, Len(lines) - 1) EXCEPT !.buffer = lines[Len(lines)]]

\* after the read loop: the rest of the buffer, then the error or the result
Finish(st) ==
  LET s1 == IF IsBlank(st.buffer) THEN st
            ELSE TryLine([st EXCEPT !.lineNumber = @ + 1], st.buffer)
  IN  IF Len(s1.parseErrors) > 0
      THEN [s1 EXCEPT !.phase = "thrown",
                      !.result = [thrown |-> "Error", failed |-> Len(s1.parseErrors),
                                  detail |-> SubSeq(s1.parseErrors, 1,
                                               IF Len(s1.parseErrors) < 3
                                               THEN Len(s1.parseErrors) ELSE 3)]]
      ELSE [s1 EXCEPT !.phase = "returned",
                      !.result = [data |-> s1.allData, columns |-> s1.columns,
                                  row_count |-> s1.totalRows,
                                  execution_time_ms |-> s1.executionTimeMs]]

\* the locals of parseNDJSONResponse at its start, on a body of `lines`;
\* `cut` records that a read has ended inside a line (observation only)
NewParse(lines, ended) ==
  [api |-> "ndjson", phase |-> "reading", lines |-> lines, ended |-> ended,
   stream |-> BodyText(lines, ended), buffer |-> <<>>, allData |-> <<>>,
   hasColumns |-> FALSE, columns |-> <<>>, totalRows |-> 0,
   executionTimeMs |-> 0, parseErrors |-> <<>>, lineNumber |-> 0,
   result |-> <<>>, cut |-> FALSE]

\* reader.read() returns the next n characters of the body
Read(n) ==
  /\ call.api = "ndjson"
  /\ call.phase = "reading"
  /\ n \in 1..Len(call.stream)
  /\ LET k == Feed(call, SubSeq(call.stream, 1, n)) IN
     Commit([World EXCEPT !.call =
       [k EXCEPT !.stream = SubSeq(call.stream, n + 1, Len(call.stream)),
                 !.cut = @ \/ (Len(k.buffer) > 0 /\ n < Len(call.stream))]])

\* reader.read() returns done
ReadDone ==
  /\ call.api = "ndjson"
  /\ call.phase = "reading"
  /\ Len(call.stream) = 0
  /\ Commit([World EXCEPT !.call = Finish(call)])

\* ------------------------------------------------------- QueryClient
\* The bodies the query endpoint answers with: rows, a queued operation with
\* or without its id, an operation in another state.
BodyFields == {"data", "columns", "status", "operation_id", "queue_position",
               "estimated_wait_seconds"}
NoBody == [f \in BodyFields |-> "undefined"]
RowsBody == [NoBody EXCEPT !["data"] = "rows", !["columns"] = "cols"]
QueuedBodies ==
  {[NoBody EXCEPT !["status"] = "queued", !["operation_id"] = id,
                  !["queue_position"] = pos, !["estimated_wait_seconds"] = wait] :
     id \in {OpNames[1], "undefined"}, pos \in {"3", "0"}, wait \in {"15", "undefined"}}
Bodies == {RowsBody, [NoBody EXCEPT !["status"] = "running",
                                    !["operation_id"] = OpNames[1]]}
          \cup QueuedBodies

\* the NDJSON bodies a query is answered with in stream mode
QueryLines == {<<>>, <<"c1">>, <<"c1", "bad">>, <<"c2", "c3">>}

\* What executeCypherQuery returns.  In the modes that parse, data is the body
\* or error is set; with parseAs: 'stream' data is not the parsed body and
\* the body is read from response.response: JSON (raw "json", "badjson" when
\* it does not parse), NDJSON lines, or another content type.
ParsedEnvelopes ==
  {[error |-> "undefined", data |-> b, raw |-> "none", rawBody |-> NoBody,
    lines |-> <<>>, ended |-> FALSE] : b \in Bodies}
  \cup {[error |-> "E", data |-> NoBody, raw |-> "none", rawBody |-> NoBody,
         lines |-> <<>>, ended |-> FALSE]}
StreamEnvelopes ==
  {[error |-> "undefined", data |-> NoBody, raw |-> "json", rawBody |-> b,
    lines |-> <<>>, ended |-> FALSE] : b \in Bodies}
  \cup {[error |-> "undefined", data |-> NoBody, raw |-> r, rawBody |-> NoBody,
         lines |-> <<>>, ended |-> FALSE] : r \in {"badjson", "other"}}
  \cup {[error |-> "undefined", data |-> NoBody, raw |-> "ndjson", rawBody |-> NoBody,
         lines |-> l, ended |-> e] : l \in QueryLines, e \in BOOLEAN}
  \cup {[error |-> "E", data |-> NoBody, raw |-> "none", rawBody |-> NoBody,
         lines |-> <<>>, ended |-> FALSE]}
Envelopes(mode) == IF mode = "stream" THEN StreamEnvelopes ELSE ParsedEnvelopes

QueryModes == {"undefined", "auto", "stream"}
MaxWaits   == {"undefined", "0", "5000"}

\* the body the server sent
ServerBody(env) == IF env.raw = "none" THEN env.data ELSE env.rawBody

\* new QueuedQueryError(queuedResponse)
QueuedError(b) == [thrown |-> "QueuedQueryError", queueInfo |-> b]

\* executeQuery from `const responseData = response.data` on, up to its
\* return, its throw or its call of waitForQueryCompletion
ResponseData(env, opts) ==
  LET d == env.data
      notify == IF "onQueueUpdate" \in opts.cbs
                THEN <<[kind |-> "onQueueUpdate", cb |-> MonCb,
                        data |-> [position |-> d["queue_position"],
                                  estimatedWait |-> d["estimated_wait_seconds"]]]>>
                ELSE <<>>
  IN
  IF d["data"] # "undefined" /\ Truthy(d["columns"])
    THEN [kind |-> "return", value |-> [of |-> "data", data |-> d], notify |-> <<>>]
  ELSE IF d["status"] = "queued" /\ Truthy(d["operation_id"])
    THEN IF opts.maxWait = "0"
         THEN [kind |-> "throw", value |-> QueuedError(d), notify |-> notify]
         ELSE [kind |-> "wait", value |-> d["operation_id"], notify |-> notify]
  ELSE [kind |-> "throw",
        value |-> [thrown |-> "Error", message |-> "Unexpected response format"],
        notify |-> <<>>]

\* executeQuery after `await response.response.json()`: the promise rejects
\* when the body is no JSON; a body without rows falls through to response.data
JsonFallback(env, opts) ==
  IF env.raw = "badjson"
    THEN [kind |-> "throw", value |-> [thrown |-> "SyntaxError", message |-> "json"],
          notify |-> <<>>]
  ELSE IF env.rawBody["data"] # "undefined" /\ Truthy(env.rawBody["columns"])
    THEN [kind |-> "return", value |-> [of |-> "json", data |-> env.rawBody],
          notify |-> <<>>]
  ELSE ResponseData(env, opts)

\* executeQuery after the await of executeCypherQuery, up to its return or
\* throw, its call of waitForQueryCompletion or of parseNDJSONResponse, or
\* its await of response.response.json()
QueryOutcome(env, opts) ==
  IF Truthy(env.error)
    THEN [kind |-> "throw", value |-> [thrown |-> "Error", message |-> env.error],
          notify |-> <<>>]
  ELSE IF opts.mode = "stream" /\ env.raw = "ndjson"
    THEN [kind |-> "parse", value |-> <<>>, notify |-> <<>>]
  ELSE IF opts.mode = "stream" /\ env.raw \in {"json", "badjson"}
    THEN [kind |-> "json", value |-> <<>>, notify |-> <<>>]
  ELSE ResponseData(env, opts)

\* what executeQuery does with an outcome: it returns, throws, awaits the
\* body, reads the NDJSON body, or waits on the stream of the operation
QueryStep(w, o, env, opts) ==
  LET k  == [NoCall EXCEPT
               !.api = "query", !.env = env, !.opts = opts,
               !.phase = CASE o.kind = "throw" -> "thrown"
                           [] o.kind = "return" -> "returned"
                           [] o.kind = "json" -> "body"
                           [] OTHER -> "waiting",
               !.result = IF o.kind \in {"throw", "return"} THEN o.value ELSE <<>>,
               !.client = IF o.kind = "wait" THEN FreeClient(w) ELSE 0]
      w1 == [w EXCEPT !.calls = o.notify,
                      !.call = IF o.kind = "parse"
                               THEN NewParse(env.lines, env.ended)
                               ELSE k]
  IN  IF o.kind = "wait"
      THEN DoExecutorWait(w1, "query", o.value, opts.cbs)
      ELSE w1

\* the caller: executeQuery(graphId, request, options), from the answer of
\* the query endpoint on, up to its first await
ExecuteQuery(env, opts) ==
  /\ call.phase = "idle"
  /\ \A c \in Clients : hist[c].role = "none"
  /\ Commit(QueryStep(World, QueryOutcome(env, opts), env, opts))

\* response.response.json() settles
QueryBody ==
  /\ call.api = "query"
  /\ call.phase = "body"
  /\ Commit(QueryStep(World, JsonFallback(call.env, call.opts), call.env, call.opts))

\* the caller: monitorOperation(operationId, options)
MonitorOperation(op, withTimeout, cbs) ==
  /\ \E c \in Clients : hist[c].role = "none"
  /\ Commit(DoMonitorOperation(World, op, withTimeout, cbs))

\* monitorMultiple: operationIds.map(...) calls monitorOperation for the
\* first n ids in turn, each up to its first await
RECURSIVE MapMonitor(_, _, _, _, _)
MapMonitor(w, ids, n, withTimeout, cbs) ==
  IF n = 0 THEN w
  ELSE LET w1 == MapMonitor(w, ids, n - 1, withTimeout, cbs)
           c  == FreeClient(w1)
           w2 == DoMonitorOperation(w1, ids[n], withTimeout, cbs)
       IN  [w2 EXCEPT !.multi.clients = Append(@, c)]

\* the id lists a caller may pass: any ids, repeated or not
IdLists == UNION {[1..n -> Ops] : n \in 0..MaxClients}

\* the caller: createGraphAndWait(metadata, ..., {timeout, pollInterval,
\* useSSE}), from the answer of the server with an operation id on; a timeout
\* of 0 arms no watchdog in monitorOperation
CreateGraphAndWait(useSSE, timeout, pollInterval) ==
  /\ call.phase = "idle"
  /\ \A c \in Clients : hist[c].role = "none"
  /\ LET k  == [NoCall EXCEPT
                  !.api = "graph",
                  !.opts = [useSSE |-> useSSE, timeout |-> timeout,
                            pollInterval |-> pollInterval]]
         w1 == [World EXCEPT !.call = [k EXCEPT !.phase = "sse", !.path = "sse",
                                                !.client = FreeClient(World)]]
     IN  IF useSSE
         THEN Commit(DoMonitorOperation(w1, OpNames[1], timeout # 0, {"onProgress"}))
         ELSE Commit([World EXCEPT !.call = EnterPolling(k)])

\* what getOperationStatus may answer
Statuses == {"running", "completed", "completed{graph_id}", "failed"}

\* waitWithPolling: the sleep of pollInterval ms, armed at call.armed, ends
\* and getOperationStatus is called
PollTimer ==
  /\ call.api = "graph"
  /\ call.phase = "polling"
  /\ Commit([World EXCEPT !.call = [call EXCEPT
                !.phase = "status",
                !.waited = call.armed + call.opts.pollInterval,
                !.armed = call.armed + call.opts.pollInterval]])

\* waitWithPolling: getOperationStatus answers; the rest of the loop turn, up
\* to the next sleep, the return or the throw
PollStatus(status) ==
  /\ call.api = "graph"
  /\ call.phase = "status"
  /\ LET k == [call EXCEPT !.polls = @ + 1, !.phase = "polling"] IN
     Commit([World EXCEPT !.call =
       CASE status = "completed{graph_id}" ->
              [k EXCEPT !.phase = "returned", !.result = "g1"]
         [] status = "completed" ->
              [k EXCEPT !.phase = "thrown",
                 !.result = GraphError("Operation completed but no graph_id in result")]
         [] status = "failed" ->
              [k EXCEPT !.phase = "thrown",
                 !.result = GraphError("Graph creation failed: Unknown error")]
         [] OTHER ->
              IF k.polls = MaxPollAttempts(k)
              THEN [k EXCEPT !.phase = "thrown",
                             !.result = GraphError("Graph creation timed out")]
              ELSE k])

\* the caller: monitorMultiple(operationIds, options)
MonitorMultiple(ids, withTimeout, cbs) ==
  /\ multi.promise = "unused"
  /\ \A c \in Clients : hist[c].role = "none"
  /\ LET w1 == [World EXCEPT !.multi = [NoMulti EXCEPT !.promise = "pending",
                                                       !.ids = ids]]
     IN  Commit(MapMonitor(w1, ids, Len(ids), withTimeout, cbs))

\* a variant of the timeout callback that goes through cancelOperation
OnMonitorTimeoutCancelling(w, c) ==
  LET w1 == [w EXCEPT !.mon[c].timeout = "fired"]
      w2 == IF w.mon[c].exec \in Executors THEN DoClose(w1, c)
            ELSE DoCancelOperation(w1, w.mon[c].op)
  IN  [w2 EXCEPT !.mon[c] = Settle(@, "rejected", [success |-> FALSE], "timeout")]

\* the callback of the timeout of monitorOperation (of the copy executor:
\* sseClient.close() in place of cleanupClient)
OnMonitorTimeout(w, c) ==
  LET w1 == [w EXCEPT !.mon[c].timeout = "fired"]
      w2 == IF w.mon[c].exec \in Executors THEN DoClose(w1, c)
            ELSE DoCleanupClient(w1, w.mon[c].op)
  IN  [w2 EXCEPT !.mon[c] = Settle(@, "rejected", [success |-> FALSE], "timeout")]

\* the timeout of monitorOperation's options expires
MonitorTimeout(c) ==
  /\ mon[c].timeout = "pending"
  /\ Commit(OnMonitorTimeout(World, c))

\* the grace timer set by scheduleCleanup expires
CleanupTimer(op) ==
  /\ cleanupTimeouts[op] # 0
  /\ Commit(DoCleanupClient(World, op))

\* the caller: cancelOperation(operationId)
CancelOperation(op) ==
  Commit([DoCancelOperation(World, op) EXCEPT
            !.ohist.released[op] = TRUE])

\* the server answers a cancel request, or the request fails
CancelReply(op, ok) ==
  /\ cancelRequests[op] = "pending"
  /\ Commit([World EXCEPT !.cancelRequests[op] = IF ok THEN "ok" ELSE "failed"])

\* the caller: closeAll()
CloseAll ==
  Commit([DoCloseAll(World) EXCEPT
            !.ohist.released = [op \in Ops |-> TRUE],
            !.ohist.shut = TRUE])

\* a tick of the sweep interval set by the constructor
Sweep ==
  /\ cleanupInterval # 0
  /\ Commit(SweepEach(World, MaxClients))

\* ------------------------------------------- the standalone SSEClient
\* One SSEClient, constructed with config.maxRetries = m and not yet connected.
InitClient(retries) ==
  /\ \E m \in retries :
       sse = [c \in Clients |-> NewClient(IF c = 1 THEN m ELSE 0)]
  /\ sources = <<>>
  /\ timers = <<>>
  /\ sseClients = [op \in Ops |-> 0]
  /\ cleanupTimeouts = [op \in Ops |-> 0]
  /\ mon = [c \in Clients |-> NoMon]
  /\ hist = [c \in Clients |-> [NewHist EXCEPT !.role = IF c = 1 THEN "sse" ELSE "none"]]
  /\ calls = <<>>
  /\ NewOperationClient

\* Reconnection and resumption: the caller connects and closes; the transport
\* opens, fails and delivers events with and without sequence markers.
ReconnectKinds == {"operation_progress", "heartbeat", "operation_completed"}

InitSSE == InitClient(0..MaxRetries)

NextSSE ==
  \/ \E from \in StartMarkers : FirstConnect(1, from)
  \/ Close(1)
  \/ Transport(ReconnectKinds, EventIds)

SpecSSE == InitSSE /\ [][NextSSE]_vars

\* Backoff and retry budget: a client of any budget up to the default one; the
\* caller connects, also again; the transport opens, fails and re-opens any
\* number of times; the client is closed by its own handlers only.
InitBackoff == InitClient(0..DefaultMaxRetries)

NextBackoff ==
  \/ Connect(1, 0)
  \/ Link

SpecBackoff == InitBackoff /\ [][NextBackoff]_vars

\* Replay: a client with a retry budget of 1, connected once; the transport
\* opens, fails and delivers progress events whose sequence markers come in
\* any order, repeated or not.
ReplayIds == {<<5>>, <<1, 2>>}

NextReplay ==
  \/ FirstConnect(1, 0)
  \/ Transport({"operation_progress"}, ReplayIds)

SpecReplay == InitClient({1}) /\ [][NextReplay]_vars

\* Listeners: the caller connects once, before or after a close(), registers
\* and removes listeners and closes, in any order; the transport opens, fails
\* and re-opens at will and delivers every kind of event.
InitListen == InitClient({1})

NextListen ==
  \/ ConnectOnce(1, 0)
  \/ \E kind \in UserKinds, cb \in Callbacks : On(1, kind, cb)
  \/ \E kind \in UserKinds, cb \in Callbacks : Off(1, kind, cb)
  \/ Close(1)
  \/ Transport(EventType, NoIds)

SpecListen == InitListen /\ [][NextListen]_vars

\* Throwing listeners: the caller registers, on the completion event, a
\* listener that throws and listeners that return, and listeners that return
\* on 'parse_error'; the transport delivers every kind of typed event.
NextThrow ==
  \/ ConnectOnce(1, 0)
  \/ On(1, "operation_completed", ThrowCb)
  \/ \E kind \in {"operation_completed", "parse_error"}, cb \in Callbacks :
        On(1, kind, cb)
  \/ Delivery(EventType)

SpecThrow == InitListen /\ [][NextThrow]_vars

\* Debug mode: the caller registers listeners under '*' and 'parse_error';
\* the transport delivers every kind of event, decodable or not.
DebugKinds == {Wildcard, "parse_error"}

NextDebug ==
  \/ ConnectOnce(1, 0)
  \/ \E kind \in DebugKinds, cb \in Callbacks : On(1, kind, cb)
  \/ Transport(EventType, NoIds)

SpecDebug == InitListen /\ [][NextDebug]_vars

\* ---------------------------------------------------- the operation monitor
\* An OperationClient whose config gives its SSE clients a retry budget of 1;
\* no operation is monitored yet.
InitMon ==
  /\ sse = [c \in Clients |-> NewClient(1)]
  /\ sources = <<>>
  /\ timers = <<>>
  /\ sseClients = [op \in Ops |-> 0]
  /\ cleanupTimeouts = [op \in Ops |-> 0]
  /\ mon = [c \in Clients |-> NoMon]
  /\ hist = [c \in Clients |-> NewHist]
  /\ calls = <<>>
  /\ NewOperationClient

\* One monitoring session: the caller monitors one operation, with or without
\* a timeout and with any of the callbacks; the transport opens, fails and
\* re-opens at will and delivers every kind of event.  The ids are
\* interchangeable: the monitored one is the first.
NextSession ==
  \/ \E withTimeout \in BOOLEAN, cbs \in SUBSET CallbackOptions :
        /\ \A c \in Clients : hist[c].role = "none"
        /\ MonitorOperation(OpNames[1], withTimeout, cbs)
  \/ \E c \in Clients : MonitorTimeout(c)
  \/ \E op \in Ops : CleanupTimer(op)
  \/ Transport(EventType, NoIds)

SpecSession == InitMon /\ [][NextSession]_vars

\* Fan-out: one monitorMultiple call over any list of ids; every stream opens
\* or runs into its connection timeout, and the server ends each operation
\* with a terminal event.
NextFanOut ==
  \/ \E ids \in IdLists, withTimeout \in BOOLEAN, cbs \in SUBSET CallbackOptions :
        MonitorMultiple(ids, withTimeout, cbs)
  \/ \E c \in Clients : MonitorTimeout(c)
  \/ \E op \in Ops : CleanupTimer(op)
  \/ \E s \in 1..MaxSources : SrcOpen(s)
  \/ \E s \in 1..MaxSources : ConnectTimeout(s)
  \/ \E s \in 1..MaxSources, kind \in TerminalKinds :
        \E d \in Payloads(kind) : SrcTyped(s, kind, TRUE, <<>>, d)

SpecFanOut == InitMon /\ [][NextFanOut]_vars

\* Concurrent operations: one monitorOperation call per operation id, made
\* one after the other before anything else happens, each with or without a
\* timeout; every stream opens or runs into its connection
\* timeout, the server ends each operation by its completion or cancellation,
\* and the caller cancels any. The ids are interchangeable: the n-th call monitors the n-th id.
PairKinds == {"operation_completed", "operation_cancelled"}

NextPair ==
  \/ \E withTimeout \in BOOLEAN :
        /\ \E c \in Clients : hist[c].role = "none"
        /\ \A s \in 1..Len(sources) :
             sources[s].ready = "connecting" /\ sources[s].timer = "pending"
        /\ \A c \in Clients : mon[c].promise # "rejected"
        /\ \A op \in Ops : cancelRequests[op] = "none"
        /\ MonitorOperation(OpNames[FreeClient(World)], withTimeout, {})
  \/ \E c \in Clients : MonitorTimeout(c)
  \/ \E op \in Ops : CleanupTimer(op)
  \/ \E op \in Ops : CancelOperation(op)
  \/ \E s \in 1..MaxSources : SrcOpen(s)
  \/ \E s \in 1..MaxSources : ConnectTimeout(s)
  \/ \E s \in 1..MaxSources, kind \in PairKinds :
        \E d \in Payloads(kind) : SrcTyped(s, kind, TRUE, <<>>, d)

SpecPair == InitMon /\ [][NextPair]_vars

\* The executors: one call that waits on a stream, made by the query, agent
\* or copy executor or through monitorOperation; the transport delivers
\* every kind of event.
NextExecutors ==
  \/ \E exec \in Executors, cbs \in SUBSET CallbackOptions :
        /\ \A c \in Clients : hist[c].role = "none"
        /\ ExecutorWait(exec, OpNames[1], cbs)
  \/ \E withTimeout \in BOOLEAN :
        /\ \A c \in Clients : hist[c].role = "none"
        /\ MonitorOperation(OpNames[1], withTimeout, {})
  \/ \E c \in Clients : MonitorTimeout(c)
  \/ \E op \in Ops : CleanupTimer(op)
  \/ Delivery(EventType)

SpecExecutors == InitMon /\ [][NextExecutors]_vars

\* One executeQuery call, in any mode, on any answer of the query endpoint;
\* in stream mode the body is read afterwards, as JSON or as NDJSON in reads
\* of any sizes; a queued query that waits is ended by the server or by the
\* connection timeout.
NextQuery ==
  \/ \E mode \in QueryModes, maxWait \in MaxWaits, cbs \in SUBSET CallbackOptions :
        \E env \in Envelopes(mode) :
          ExecuteQuery(env, [mode |-> mode, maxWait |-> maxWait, cbs |-> cbs])
  \/ QueryBody
  \/ \E n \in 1..(3 * MaxLines + MaxLines) : Read(n)
  \/ ReadDone
  \/ \E s \in 1..MaxSources : SrcOpen(s)
  \/ \E s \in 1..MaxSources : ConnectTimeout(s)
  \/ \E s \in 1..MaxSources, kind \in TerminalKinds :
        \E d \in Payloads(kind) : SrcTyped(s, kind, TRUE, <<>>, d)

SpecQuery == InitMon /\ [][NextQuery]_vars

\* One createGraphAndWait call that got an operation id, with or without
\* SSE, with a timeout and a poll interval in ms; the stream opens or times
\* out, the server ends the operation with or without a graph id, and answers
\* the status polls.  The timers expire in the order of their deadlines: the
\* watchdog and the connection timeout run from the call on, each sleep of
\* the polling loop from the moment call.armed.
GraphTimeouts == {50, 250, 20000}
PollIntervals == {100, 10000}

\* the watchdog of monitorOperation is not due before the connection timeout
WatchdogDue ==
  \A s \in 1..Len(sources) :
    sources[s].timer = "pending" => call.opts.timeout <= ConnectTimeoutMs

\* the connection timeout is not due before the watchdog or the sleep
ConnectTimeoutDue ==
  /\ \A c \in Clients : mon[c].timeout = "pending" => call.opts.timeout > ConnectTimeoutMs
  /\ call.phase = "polling" => ConnectTimeoutMs <= call.armed + call.opts.pollInterval

\* the sleep of the polling loop is not due before the connection timeout
PollTimerDue ==
  \A s \in 1..Len(sources) :
    sources[s].timer = "pending" => call.armed + call.opts.pollInterval < ConnectTimeoutMs
GraphPayloads(kind) ==
  IF kind = "operation_completed"
  THEN {[NoData EXCEPT !["result"] = GraphResult], [NoData EXCEPT !["result"] = "r42"],
        [NoData EXCEPT !["graph_id"] = "g1"], NoData}
  ELSE Payloads(kind)

NextGraph ==
  \/ \E useSSE \in BOOLEAN, timeout \in GraphTimeouts, pollInterval \in PollIntervals :
        /\ timeout \div pollInterval <= MaxAttempts
        /\ CreateGraphAndWait(useSSE, timeout, pollInterval)
  \/ PollTimerDue /\ PollTimer
  \/ \E status \in Statuses : PollStatus(status)
  \/ \E c \in Clients : WatchdogDue /\ MonitorTimeout(c)
  \/ \E op \in Ops : CleanupTimer(op)
  \/ \E s \in 1..MaxSources : SrcOpen(s)
  \/ \E s \in 1..MaxSources : ConnectTimeoutDue /\ ConnectTimeout(s)
  \/ \E s \in 1..MaxSources, kind \in TerminalKinds :
        \E d \in GraphPayloads(kind) : SrcTyped(s, kind, TRUE, <<>>, d)

SpecGraph == InitMon /\ [][NextGraph]_vars

\* One monitoring session and the whole life of its OperationClient: the
\* caller monitors one operation, may cancel it and may shut the client
\* down, at any moment and repeatedly; the sweep ticks; the server answers
\* the cancel requests or not.  The server reports the end of the operation.
\* The ids are interchangeable: the monitored one is the first, and it is the
\* one the caller cancels, before, while and after it is registered.
LifecycleKinds == {"operation_completed", "operation_cancelled"}

NextLifecycle ==
  \/ \E withTimeout \in BOOLEAN :
        /\ \A c \in Clients : hist[c].role = "none"
        /\ MonitorOperation(OpNames[1], withTimeout, {})
  \/ \E c \in Clients : MonitorTimeout(c)
  \/ \E op \in Ops : CleanupTimer(op)
  \/ CancelOperation(OpNames[1])
  \/ \E ok \in BOOLEAN : CancelReply(OpNames[1], ok)
  \/ CloseAll
  \/ Sweep
  \/ Delivery(LifecycleKinds)

SpecLifecycle == InitMon /\ [][NextLifecycle]_vars

\* The sweep over several sessions: an OperationClient whose config gives its
\* SSE clients no retry (maxRetries 0); one monitorOperation call per operation
\* id, made at any moment, each with or without a timeout; every stream opens,
\* fails (which closes its client, no retry being left) or runs into its
\* connection timeout, the server ends each operation, the sweep ticks at any
\* moment and the caller may shut the client down.
\* The ids are interchangeable: the n-th call monitors the n-th id.
SweepKinds == {"operation_completed"}

InitSweep ==
  /\ sse = [c \in Clients |-> NewClient(0)]
  /\ sources = <<>>
  /\ timers = <<>>
  /\ sseClients = [op \in Ops |-> 0]
  /\ cleanupTimeouts = [op \in Ops |-> 0]
  /\ mon = [c \in Clients |-> NoMon]
  /\ hist = [c \in Clients |-> NewHist]
  /\ calls = <<>>
  /\ NewOperationClient

NextSweep ==
  \/ \E withTimeout \in BOOLEAN :
        /\ \E c \in Clients : hist[c].role = "none"
        /\ MonitorOperation(OpNames[FreeClient(World)], withTimeout, {})
  \/ \E c \in Clients : MonitorTimeout(c)
  \/ \E op \in Ops : CleanupTimer(op)
  \/ CloseAll
  \/ Sweep
  \/ \E s \in 1..MaxSources : SrcOpen(s)
  \/ \E s \in 1..MaxSources, fatal \in BOOLEAN : SrcError(s, fatal)
  \/ \E s \in 1..MaxSources : ConnectTimeout(s)
  \/ \E s \in 1..MaxSources, kind \in SweepKinds :
        \E d \in Payloads(kind) : SrcTyped(s, kind, TRUE, <<>>, d)

SpecSweep == InitSweep /\ [][NextSweep]_vars

\* Every timer that is pending expires in the end; the transport owes nothing.
TimersExpire ==
  /\ \A c \in Clients : WF_vars(MonitorTimeout(c))
  /\ \A op \in Ops : WF_vars(CleanupTimer(op))
  /\ \A s \in 1..MaxSources : WF_vars(ConnectTimeout(s))
  /\ \A i \in 1..MaxSources : WF_vars(ReconnectTimer(i))

FairSpecSession == SpecSession /\ TimersExpire

\* the lifecycle with timers that expire and a server that answers in the end
FairSpecLifecycle ==
  /\ SpecLifecycle
  /\ TimersExpire
  /\ \A op \in Ops : WF_vars(CancelReply(op, TRUE))

\* the bodies: up to MaxLines lines, with or without a final newline
BodyLines == UNION {[1..n -> LineKinds] : n \in 0..MaxLines}

\* One parseNDJSONResponse call on any body, read in pieces of any sizes.
InitNdjson ==
  /\ sse = [c \in Clients |-> NewClient(1)]
  /\ sources = <<>>
  /\ timers = <<>>
  /\ sseClients = [op \in Ops |-> 0]
  /\ cleanupTimeouts = [op \in Ops |-> 0]
  /\ mon = [c \in Clients |-> NoMon]
  /\ hist = [c \in Clients |-> NewHist]
  /\ calls = <<>>
  /\ cleanupInterval = CleanupIntervalMs
  /\ cancelRequests = [op \in Ops |-> "none"]
  /\ ohist = NewOHist
  /\ multi = NoMulti
  /\ \E lines \in BodyLines, ended \in BOOLEAN : call = NewParse(lines, ended)

NextNdjson ==
  \/ \E n \in 1..(3 * MaxLines + MaxLines) : Read(n)
  \/ ReadDone

SpecNdjson == InitNdjson /\ [][NextNdjson]_vars

\* ------------------------------------------------- CopyClient: the calls
\* what a copy request ends with: the request throws, or the endpoint answers
\* with a status, an error text, and for an accepted operation its id and
\* whether an sse_url comes with it
CopyReplies ==
  {[via |-> "response", status |-> s, error |-> NoText,
    operationId |-> "undefined", sseUrl |-> FALSE] : s \in {"completed", "partial"}}
  \cup {[via |-> "response", status |-> "failed", error |-> e,
         operationId |-> "undefined", sseUrl |-> FALSE] : e \in ErrorTexts}
  \cup {[via |-> "response", status |-> "accepted", error |-> NoText,
         operationId |-> id, sseUrl |-> u] :
          id \in {OpNames[1], "undefined"}, u \in BOOLEAN}
  \cup {[via |-> "request_throws", status |-> "-", error |-> e,
         operationId |-> "undefined", sseUrl |-> FALSE] : e \in ErrorTexts}

\* the answer makes executeCopy call monitorCopyOperation
Monitors(reply) ==
  /\ reply.via = "response"
  /\ reply.status = "accepted"
  /\ reply.operationId # "undefined"
  /\ reply.sseUrl

\* CopyClient.executeCopy after its await of copyDataToGraph: up to its
\* return, or to the await of connect() in monitorCopyOperation; its caller
\* goes on in the same step when executeCopy has returned
ExecuteCopy(w, reply) ==
  LET k == w.call
      started == CopyProgress(k, [message |-> "Copy operation started. Monitoring progress..."])
  IN
  CASE reply.via = "request_throws" ->
         CopySettled(w, [thrown |-> FALSE, status |-> "failed", error |-> reply.error])
    [] reply.status = "accepted" /\ reply.operationId # "undefined" ->
         LET w1 == [w EXCEPT !.calls = @ \o started] IN
         IF reply.sseUrl
         THEN [DoExecutorWait(w1, "copy", reply.operationId, k.cbs) EXCEPT
                 !.call.phase = "monitoring", !.call.client = FreeClient(w)]
         ELSE CopySettled(w1, [thrown |-> FALSE, status |-> "accepted",
                                    error |-> NoText])
    [] OTHER ->
         CopySettled(w, [thrown |-> FALSE, status |-> reply.status,
                              error |-> reply.error])

\* the caller: copyWithRetry(graphId, request, sourceType, maxRetries, options)
CopyWithRetry(maxRetries, cbs) ==
  /\ call.api = "none"
  /\ Commit([World EXCEPT !.call = WhileAttempt(NewCopy(maxRetries, cbs))])

\* the callers: copyFromS3, copyFromUrl, copyFromDataFrame(graphId, request,
\* options); the source type selects the request that is sent
CopyFrom(sourceType, cbs) ==
  /\ call.api = "none"
  /\ sourceType \in {"s3", "url", "dataframe"}
  /\ Commit([World EXCEPT !.call = NewCopyFrom(cbs)])

\* the copy request of executeCopy settles
CopyReply(reply) ==
  /\ call.api \in {"copyWithRetry", "copy"}
  /\ call.phase = "request"
  /\ Monitors(reply) => \E c \in Clients : hist[c].role = "none"
  /\ Commit(ExecuteCopy(World, reply))

\* the backoff timer of copyWithRetry expires
CopyRetryTimer ==
  /\ call.api = "copyWithRetry"
  /\ call.phase = "waiting"
  /\ Commit([World EXCEPT !.call =
       WhileAttempt([call EXCEPT !.slept = call.wait, !.wait = 0])])

\* the payloads the server ends or accompanies a copy with
CopyPayloads(kind) ==
  CASE kind = "operation_completed" ->
         {NoData, [NoData EXCEPT !["status"] = "partial"]}
    [] kind = "operation_error" ->
         {[NoData EXCEPT !["message"] = "Timeout"],
          [NoData EXCEPT !["error"] = "denied"], NoData}
    [] OTHER -> Payloads(kind)

CopyKinds == TerminalKinds \cup {"operation_progress"}

\* One copyWithRetry call with any retry budget, or one direct copy call, with
\* any of the callbacks;
\* every request ends in any of the ways a copy request can end; the stream of
\* an accepted operation opens or runs into its connection timeout, and the
\* server reports progress and the end of the operation on it, or nothing
\* until the timeout of the monitoring expires.
NextCopy ==
  \/ \E maxRetries \in 0..MaxCopyRetries, cbs \in SUBSET CallbackOptions :
        CopyWithRetry(maxRetries, cbs)
  \/ \E sourceType \in {"s3", "url", "dataframe"}, cbs \in SUBSET CallbackOptions :
        CopyFrom(sourceType, cbs)
  \/ \E reply \in CopyReplies : CopyReply(reply)
  \/ CopyRetryTimer
  \/ \E c \in Clients : MonitorTimeout(c)
  \/ \E s \in 1..MaxSources : SrcOpen(s)
  \/ \E s \in 1..MaxSources : ConnectTimeout(s)
  \/ \E s \in 1..MaxSources, kind \in CopyKinds :
        \E d \in CopyPayloads(kind) : SrcTyped(s, kind, TRUE, <<>>, d)

SpecCopy == InitMon /\ [][NextCopy]_vars

\* what the lines of a body hold, computed from the lines themselves
RowsOfLine(kind) ==
  IF kind \in {"bad", "blank"} THEN <<>>
  ELSE IF ChunkOf[kind].hasRows THEN ChunkOf[kind].rows
  ELSE IF ChunkOf[kind].hasData THEN ChunkOf[kind].data
  ELSE <<>>

RECURSIVE AllRows(_)
AllRows(lines) ==
  IF Len(lines) = 0 THEN <<>>
  ELSE AllRows(SubSeq(lines, 1, Len(lines) - 1)) \o RowsOfLine(lines[Len(lines)])

FirstColumns(lines) ==
  LET with == {i \in 1..Len(lines) :
                 lines[i] \notin {"bad", "blank"} /\ ChunkOf[lines[i]].hasColumns}
  IN  IF with = {} THEN <<>>
      ELSE ChunkOf[lines[CHOOSE i \in with : \A j \in with : i <= j]].columns

RECURSIVE MaxTime(_)
MaxTime(lines) ==
  IF Len(lines) = 0 THEN 0
  ELSE Max(MaxTime(SubSeq(lines, 1, Len(lines) - 1)),
           IF lines[Len(lines)] \in {"bad", "blank"} THEN 0
           ELSE ChunkOf[lines[Len(lines)]].time)

BadLines(lines) == {i \in 1..Len(lines) : lines[i] = "bad"}

\* =================================================================== claims

\* the listener invocations an emit of `kind` with `data` makes on listeners L
Notified(L, kind, data) ==
  [i \in 1..Len(L[kind]) |-> [kind |-> kind, cb |-> L[kind][i], data |-> data]]

\* C1 (SpecSSE): once close() has been called the client holds no transport
\* stream any more, so that isConnected() is false in every later state.
C1_ClosedIsFinal ==
  \A c \in Clients : sse[c].closed => sse[c].eventSource = 0

\* C2 (FairSpecSession): once 'max_retries_exceeded' has fired on the client of a
\* monitorOperation call, the promise that call returned settles in the end.
C2_ExhaustionSettles ==
  \A c \in Clients :
    (hist[c].role = "monitor" /\ hist[c].maxRetriesEmits > 0)
      ~> (mon[c].promise \in {"resolved", "rejected"})

\* C3 (SpecSSE): the promise of a connect() call always settles: as long as
\* it is pending, the connection timeout that would reject it is still armed.
C3_ConnectSettles ==
  \A s \in 1..Len(sources) :
    sources[s].promise = "pending" => sources[s].timer = "pending"

\* C4 (SpecBackoff): with maxRetries = M, at most M reconnects are scheduled
\* in a run of consecutive failures; the error that follows them emits
\* 'max_retries_exceeded', once, closes the client and schedules no reconnect.
C4_RetryBudget ==
  /\ [](\A c \in Clients :
          /\ hist[c].maxRetriesEmits <= 1
          /\ hist[c].schedSinceOpen <= sse[c].maxRetries
          /\ hist[c].errorsSinceOpen > sse[c].maxRetries
               => (hist[c].maxRetriesEmits = 1 /\ sse[c].closed))
  /\ [][\A c \in Clients :
          hist'[c].maxRetriesEmits > hist[c].maxRetriesEmits
            => /\ hist'[c].errorsSinceOpen = sse[c].maxRetries + 1
               /\ hist[c].schedSinceOpen = sse[c].maxRetries
               /\ sse'[c].closed
               /\ sse'[c].eventSource = 0
               /\ timers' = timers]_vars

C4_Witness ==
  \E c \in Clients :
    /\ sse[c].maxRetries = DefaultMaxRetries
    /\ hist[c].errorsSinceOpen = DefaultMaxRetries + 1
    /\ hist[c].maxRetriesEmits = 1
    /\ sse[c].closed

\* C5 (SpecBackoff): the reconnect scheduled by the i-th consecutive failure
\* since the last open waits retryDelay * 2^(i-1): 1000, 2000, 4000, 8000
\* and 16000 ms with the defaults.
C5_BackoffDoubles ==
  \A i \in 1..Len(timers) :
    /\ timers[i].attempt \in 1..DefaultMaxRetries
    /\ timers[i].delay = RetryDelay * 2^(timers[i].attempt - 1)
    /\ timers[i].delay = <<1000, 2000, 4000, 8000, 16000>>[timers[i].attempt]

C5_Witness ==
  \E i \in 1..Len(timers) :
    timers[i].attempt = DefaultMaxRetries /\ timers[i].delay = 16000

\* C6 (SpecSSE): every reconnect opens its stream from the marker of the last
\* event received before the drop plus one, or from the starting marker given
\* to connect() when no event had been received.
C6_ResumeAfterLast ==
  \A s \in 1..Len(sources) :
    sources[s].cont = "reconnect" => sources[s].from = sources[s].want

\* C7 (SpecListen): a decodable event of a terminal kind dispatched on a
\* connected client invokes the listeners of that kind with the payload
\* first, then closes the client (isConnected() is false); an event of one of
\* the six other kinds invokes its listeners and leaves the connection open.
C7_TerminalAutoClose ==
  [][\A s \in 1..MaxSources, kind \in EventType :
       \A d \in Payloads(kind) :
         (IsConnected(1) /\ SrcTyped(s, kind, TRUE, <<>>, d)) =>
           LET L == sse[1].listeners
               n == Len(L[kind])
           IN  /\ Len(calls') >= n
               /\ SubSeq(calls', 1, n) = Notified(L, kind, d)
               /\ IF kind \in TerminalKinds
                  THEN /\ SubSeq(calls', n + 1, Len(calls')) = Notified(L, "closed", Null)
                       /\ sse'[1].closed
                       /\ sse'[1].eventSource = 0
                       /\ sources'[sse[1].eventSource].ready = "closed"
                  ELSE /\ Len(calls') = n
                       /\ sse'[1].closed = sse[1].closed
                       /\ sse'[1].eventSource = sse[1].eventSource
                       /\ sources'[sse'[1].eventSource].ready = "open"]_vars

C7_Witness ==
  /\ Len(calls) = 2
  /\ calls[1].kind = "operation_completed"
  /\ calls[1].data["result"] = "r42"
  /\ calls[2].kind = "closed"
  /\ sse[1].closed
  /\ sse[1].eventSource = 0
  /\ ~hist[1].reclosed

\* C8 (SpecListen): close() on a client that is already closed leaves the
\* closed flag, the transport handle and the listener map as the first close
\* left them, and notifies no listener that an earlier close discarded; with
\* nothing registered since, it notifies nobody and changes nothing.
C8_CloseIdempotent ==
  [][(sse[1].closed /\ Close(1)) =>
       /\ sse'[1].closed
       /\ sse'[1].eventSource = 0
       /\ sse'[1].listeners = NoListeners
       /\ \A i \in 1..Len(calls') :
            <<calls'[i].kind, calls'[i].cb>> \notin hist[1].stale
       /\ sse[1].listeners = NoListeners => calls' = <<>>
       /\ (sse[1].listeners = NoListeners /\ sse[1].eventSource = 0)
            => (sse' = sse /\ sources' = sources /\ timers' = timers)]_vars

C8_Witness ==
  /\ hist[1].reclosed
  /\ hist[1].connects = 1
  /\ <<"closed", 1>> \in hist[1].stale
  /\ sse[1].closed
  /\ sse[1].eventSource = 0
  /\ sse[1].listeners = NoListeners
  /\ calls = <<>>

C10_TerminalEventSettles ==
  [][\A s \in 1..MaxSources, kind \in EventType :
       \A d \in Payloads(kind) :
         (/\ s \in 1..Len(sources)
          /\ mon[sources[s].client].promise = "pending"
          /\ ~sse[sources[s].client].closed
          /\ SrcTyped(s, kind, TRUE, <<>>, d)) =>
           LET m == mon'[sources[s].client] IN
           IF kind \in TerminalKinds
           THEN /\ m.promise = "resolved"
                /\ m.result.success = (kind = "operation_completed")
                /\ kind = "operation_cancelled"
                     => m.result.error = "Operation cancelled"
                /\ kind = "operation_error"
                     => m.result.error \in {"boom", "Operation failed"}
           ELSE m.promise = "pending"]_vars

\* C11 (SpecSession): every OperationResult monitorOperation resolves with
\* has no error when success is true, and has no result and has an error
\* when success is false.
C11_ResultExclusive ==
  \A c \in Clients :
    mon[c].promise = "resolved" =>
      LET r == mon[c].result IN
      IF r.success
      THEN "error" \notin DOMAIN r
      ELSE /\ "result" \notin DOMAIN r
           /\ "error" \in DOMAIN r
           /\ r.error \notin {"undefined", "0"}

C11_Witness ==
  \E c \in Clients :
    /\ mon[c].promise = "resolved"
    /\ mon[c].reason = "operation_error"
    /\ ~mon[c].result.success
    /\ mon[c].result.error = "Operation failed"

\* C12 (SpecSession): when the monitoring timeout expires the connection of
\* the operation is closed and unregistered and the promise rejects with the
\* timeout error; a terminal event dispatched while the timeout is pending
\* cancels it.
C12_TimeoutOrTerminal ==
  [][/\ \A c \in Clients :
          MonitorTimeout(c) =>
            /\ mon'[c].promise = "rejected"
            /\ mon'[c].reason = "timeout"
            /\ sseClients'[mon[c].op] = 0
            /\ sse'[c].closed
     /\ \A s \in 1..MaxSources, kind \in TerminalKinds :
          \A d \in Payloads(kind) :
            (/\ s \in 1..Len(sources)
             /\ mon[sources[s].client].timeout = "pending"
             /\ ~sse[sources[s].client].closed
             /\ SrcTyped(s, kind, TRUE, <<>>, d))
              => mon'[sources[s].client].timeout # "pending"]_vars

\* C13 as stated (SpecSession): the promise of monitorOperation rejects on
\* the expiry of the monitoring timeout and on no other path.
C13_OnlyTimeoutRejects ==
  \A c \in Clients : mon[c].promise = "rejected" => mon[c].reason = "timeout"

\* C13 amended (SpecSession): the promise of monitorOperation rejects on the
\* expiry of the monitoring timeout or on the failure of the initial connect,
\* and on no other path; whenever a terminal event settles it, it resolves
\* with an OperationResult.
C13_RejectsOnTimeoutOrConnect ==
  \A c \in Clients :
    /\ mon[c].promise = "rejected" => mon[c].reason \in {"timeout", "connect"}
    /\ mon[c].reason \in TerminalKinds =>
          /\ mon[c].promise = "resolved"
          /\ mon[c].result.success = (mon[c].reason = "operation_completed")
    /\ mon[c].promise = "resolved" => mon[c].reason \in TerminalKinds

C13_Witness ==
  \E c \in Clients :
    /\ mon[c].promise = "rejected"
    /\ mon[c].reason = "connect"
    /\ sse[c].closed

\* the fields of the monitor and of its connections that two states share
SameMonitor(w1, w2) ==
  /\ w1.sse = w2.sse
  /\ w1.sources = w2.sources
  /\ w1.timers = w2.timers
  /\ w1.sseClients = w2.sseClients
  /\ w1.cleanupTimeouts = w2.cleanupTimeouts
  /\ w1.mon = w2.mon
  /\ w1.cleanupInterval = w2.cleanupInterval
  /\ w1.cancelRequests = w2.cancelRequests

\* C14 (FairSpecLifecycle): when cancelOperation(id) is called while the
\* promise of monitorOperation(id) is pending, that promise is resolved, with
\* success = false and the cancellation as its error.
C14_CallerCancelResolves ==
  \A c \in Clients :
    (/\ hist[c].role = "monitor"
     /\ ohist.released[mon[c].op]
     /\ ~ohist.shut
     /\ mon[c].promise = "pending")
      ~> (/\ mon[c].promise = "resolved"
          /\ ~mon[c].result.success
          /\ mon[c].result.error = "Operation cancelled")

\* C15 (SpecLifecycle): cancelOperation(id) has closed the connection of id,
\* removed its registry entry and cleared its grace timer when the cancel
\* request goes to the server, and whatever becomes of the request changes
\* nothing of the monitor.
C15_ReleaseBeforeRequest ==
  /\ [](\A op \in Ops : ohist.issuedReleased[op])
  /\ [][/\ \A op \in Ops :
            CancelOperation(op) =>
              /\ cancelRequests'[op] = "pending"
              /\ sseClients'[op] = 0
              /\ cleanupTimeouts'[op] = 0
              /\ sseClients[op] # 0 =>
                   /\ sse'[sseClients[op]].closed
                   /\ sse'[sseClients[op]].eventSource = 0
                   /\ sse[sseClients[op]].eventSource # 0 =>
                        sources'[sse[sseClients[op]].eventSource].ready = "closed"
        /\ \A o \in Ops, ok \in BOOLEAN :
             CancelReply(o, ok) =>
               UNCHANGED <<sse, sources, timers, sseClients, cleanupTimeouts,
                           mon, cleanupInterval>>]_vars

C15_Witness ==
  \E op \in Ops, c \in Clients :
    /\ cancelRequests[op] = "failed"
    /\ hist[c].role = "monitor"
    /\ mon[c].op = op
    /\ ohist.released[op]
    /\ ~ohist.shut
    /\ sseClients[op] = 0
    /\ sse[c].closed
    /\ Len(sources) > 0

\* C16 (SpecLifecycle): in every state, also after the operation completed
\* and after its grace cleanup ran, a second cancelOperation(id), a second
\* closeAll() and a second close() leave the registry, the timer map, the
\* connections and the sweep as the first call left them, and invoke no
\* callback; the first call leaves no registry entry and no grace timer.
C16_Idempotent ==
  /\ \A op \in Ops :
       LET w1 == DoCancelOperation(World, op)
           w2 == DoCancelOperation(w1, op)
       IN  /\ SameMonitor(w1, w2)
           /\ w2.calls = w1.calls
           /\ w1.sseClients[op] = 0
           /\ w1.cleanupTimeouts[op] = 0
  /\ LET w1 == DoCloseAll(World)
         w2 == DoCloseAll(w1)
     IN  /\ SameMonitor(w1, w2)
         /\ w2.calls = w1.calls
         /\ \A o \in Ops : w1.sseClients[o] = 0 /\ w1.cleanupTimeouts[o] = 0
         /\ w1.cleanupInterval = 0
  /\ \A c \in Clients :
       LET w1 == DoClose(World, c)
           w2 == DoClose(w1, c)
       IN  SameMonitor(w1, w2) /\ w2.calls = w1.calls

C16_Witness ==
  \E op \in Ops, c \in Clients :
    /\ hist[c].role = "monitor"
    /\ mon[c].op = op
    /\ ohist.released[op]
    /\ ohist.shut
    /\ mon[c].promise = "resolved"
    /\ sseClients[op] = 0
    /\ cleanupTimeouts[op] = 0
    /\ cleanupInterval = 0

\* C17 (SpecLifecycle): when a terminal event resolves monitorOperation(id)
\* the entry of id stays in the registry and a cleanup is scheduled 5000 ms
\* later; while the cleanup is pending the entry is registered, its
\* connection is closed and has no listener that could schedule again; only
\* a cancel, a sweep, closeAll or the cleanup itself removes the entry, and
\* the cleanup closes the connection and deletes the entry and its timer.
C17_GraceWindow ==
  /\ [](\A op \in Ops :
         cleanupTimeouts[op] # 0 /\ sseClients[op] # 0 =>
           /\ cleanupTimeouts[op] = GraceDelayMs
           /\ mon[sseClients[op]].promise = "resolved"
           /\ sse[sseClients[op]].closed
           /\ Registered(sse[sseClients[op]].listeners) = {})
  /\ [][\A op \in Ops :
         /\ \A c \in Clients :
              (/\ mon[c].op = op
               /\ mon[c].promise = "pending"
               /\ mon'[c].promise = "resolved"
               /\ sseClients[op] = c) =>
                 /\ sseClients'[op] = c
                 /\ cleanupTimeouts'[op] = GraceDelayMs
         /\ (/\ cleanupTimeouts[op] # 0
             /\ sseClients[op] # 0
             /\ ~(CancelOperation(op) \/ CloseAll \/ Sweep \/ CleanupTimer(op))) =>
               /\ sseClients'[op] = sseClients[op]
               /\ cleanupTimeouts'[op] = cleanupTimeouts[op]
         /\ CleanupTimer(op) =>
               /\ sseClients'[op] = 0
               /\ cleanupTimeouts'[op] = 0
               /\ sseClients[op] # 0 =>
                    /\ sse'[sseClients[op]].closed
                    /\ sse'[sseClients[op]].eventSource = 0]_vars

\* the grace window is over: resolved, no cancel and no closeAll, entry gone
C17_Witness ==
  \E op \in Ops, c \in Clients :
    /\ hist[c].role = "monitor"
    /\ mon[c].op = op
    /\ mon[c].promise = "resolved"
    /\ ~ohist.released[op]
    /\ cleanupInterval = CleanupIntervalMs
    /\ sseClients[op] = 0
    /\ cleanupTimeouts[op] = 0
    /\ sse[c].closed

\* the connection of client c is closed: flag set, stream detached and closed
Released(c) ==
  /\ sse'[c].closed
  /\ sse'[c].eventSource = 0
  /\ Registered(sse'[c].listeners) = {}
  /\ sse[c].eventSource # 0 => sources'[sse[c].eventSource].ready = "closed"

\* C18 (SpecLifecycle): closeAll() leaves the registry empty, the
\* cleanup-timer map empty and the sweep interval unset, and every connection
\* that was registered is closed; no sweep ticks once the interval is unset.
C18_CloseAllReleases ==
  /\ [](cleanupInterval \in {0, CleanupIntervalMs})
  /\ [][/\ CloseAll =>
            (/\ \A op \in Ops : sseClients'[op] = 0 /\ cleanupTimeouts'[op] = 0
             /\ cleanupInterval' = 0
             /\ \A op \in Ops : (sseClients[op] # 0 => Released(sseClients[op])))
        /\ cleanupInterval = 0 => (cleanupInterval' = 0 /\ ~Sweep)]_vars

\* closeAll() came while a connection was registered with its grace timer
\* pending or its stream live
C18_Witness ==
  \E op \in Ops, c \in Clients :
    /\ ohist.shut
    /\ hist[c].role = "monitor"
    /\ mon[c].op = op
    /\ sse[c].closed
    /\ sseClients[op] = 0
    /\ cleanupInterval = 0
    /\ \E s \in 1..Len(sources) : sources[s].client = c /\ sources[s].ready = "closed"

\* C19 (SpecLifecycle): after closeAll() no timer of the monitor or of its
\* connections is pending (monitoring timeout, connection timeout, reconnect
\* backoff, grace delay, sweep) and no transport is live.
C19_NothingPendingAfterCloseAll ==
  ohist.shut =>
    /\ \A c \in Clients : mon[c].timeout # "pending"
    /\ \A s \in 1..Len(sources) :
         sources[s].timer # "pending" /\ sources[s].ready = "closed"
    /\ timers = <<>>
    /\ \A op \in Ops : cleanupTimeouts[op] = 0
    /\ cleanupInterval = 0

\* the streams and reconnect timers of client c are the same after the step
SameStreams(c) ==
  /\ Len(sources') = Len(sources)
  /\ \A s \in 1..Len(sources) : sources[s].client = c => sources'[s] = sources[s]
  /\ {i \in 1..Len(timers') : timers'[i].client = c}
       = {i \in 1..Len(timers) : timers[i].client = c}
  /\ \A i \in 1..Len(timers) : timers[i].client = c => timers'[i] = timers[i]

\* C20 (SpecSweep): a sweep ticks only while the interval is set; in one tick
\* it releases every registered connection that is not connected (closed,
\* entry and grace timer removed) and leaves every connected one unchanged:
\* its entry, its grace timer, its client, its streams and its promise.
C20_SweepReleasesUnconnected ==
  [][Sweep =>
       /\ cleanupInterval = CleanupIntervalMs
       /\ cleanupInterval' = cleanupInterval
       /\ \A op \in Ops :
            LET c == sseClients[op] IN
            /\ c = 0 =>
                 (sseClients'[op] = 0 /\ cleanupTimeouts'[op] = cleanupTimeouts[op])
            /\ (c # 0 /\ ~IsConnectedIn(World, c)) =>
                 /\ sseClients'[op] = 0
                 /\ cleanupTimeouts'[op] = 0
                 /\ Released(c)
            /\ (c # 0 /\ IsConnectedIn(World, c)) =>
                 /\ sseClients'[op] = c
                 /\ cleanupTimeouts'[op] = cleanupTimeouts[op]
                 /\ sse'[c] = sse[c]
                 /\ mon'[c] = mon[c]
                 /\ SameStreams(c)]_vars

\* one tick met a connected and an unconnected entry: the first session is
\* still registered and connected, which it has been since before the second
\* one began, and the second was released by the sweep (unregistered and
\* closed with its promise pending, without any cancel, timeout or closeAll)
C20_Witness ==
  /\ sseClients[OpNames[1]] = 1
  /\ IsConnected(1)
  /\ hist[2].role = "monitor"
  /\ mon[2].op = OpNames[2]
  /\ mon[2].promise = "pending"
  /\ ~ohist.released[OpNames[2]]
  /\ sseClients[OpNames[2]] = 0
  /\ sse[2].closed
  /\ cleanupInterval = CleanupIntervalMs

\* C21 (SpecFanOut): monitorMultiple(ids) starts a monitorOperation for every
\* id in the same call; its promise is resolved exactly when every one of
\* them has resolved and none has rejected, and then holds for each id the
\* result of that id's monitoring; an empty list resolves at once to an
\* empty map and opens no connection.
C21_FanOutResolvesWithAll ==
  /\ [](multi.promise # "unused" =>
         /\ Len(multi.clients) = Len(multi.ids)
         /\ \A i \in 1..Len(multi.ids) :
              /\ mon[multi.clients[i]].op = multi.ids[i]
              /\ mon[multi.clients[i]].promise # "unused"
              /\ \A j \in 1..Len(multi.ids) :
                   multi.clients[i] = multi.clients[j] => i = j
         /\ multi.promise = "resolved" <=>
              \A i \in 1..Len(multi.ids) : mon[multi.clients[i]].promise = "resolved"
         /\ multi.promise = "resolved" =>
              /\ DOMAIN multi.result = {multi.ids[i] : i \in 1..Len(multi.ids)}
              /\ \A id \in DOMAIN multi.result :
                   \E i \in 1..Len(multi.ids) :
                     /\ multi.ids[i] = id
                     /\ multi.result[id] = mon[multi.clients[i]].result
              /\ \A i \in 1..Len(multi.ids) :
                   (\A j \in 1..Len(multi.ids) : j # i => multi.ids[j] # multi.ids[i])
                     => multi.result[multi.ids[i]] = mon[multi.clients[i]].result)
  /\ [][\A ids \in IdLists, withTimeout \in BOOLEAN, cbs \in SUBSET CallbackOptions :
          MonitorMultiple(ids, withTimeout, cbs) =>
            /\ Len(sources') = Len(sources) + Len(ids)
            /\ \A i \in 1..Len(ids) : mon'[multi'.clients[i]].promise = "pending"
            /\ ids = <<>> =>
                 (multi'.promise = "resolved" /\ multi'.result = <<>>
                  /\ sources' = sources)]_vars

C21_Witness ==
  /\ multi.promise = "resolved"
  /\ Len(multi.ids) = 2
  /\ multi.ids[1] # multi.ids[2]
  /\ multi.result[multi.ids[1]].success
  /\ ~multi.result[multi.ids[2]].success
  /\ Len(sources) = 2

\* the streams of client c that can still open or deliver events
Live(c) == {s \in 1..Len(sources) : sources[s].client = c /\ sources[s].ready # "closed"}

\* C22 (SpecSSE): an SSEClient has at most one live stream at any time; when
\* a reconnect opens a new stream, the stream that reported the error is
\* closed.
C22_OneLiveStream ==
  \A c \in Clients : Cardinality(Live(c)) <= 1

\* C24 (SpecExecutors): for every executor that waits on a stream, a
\* server-emitted operation_error or operation_cancelled event makes the
\* awaited call resolve with a failure result; it never rejects.
C24_FailuresResolve ==
  \A c \in Clients :
    mon[c].reason \in {"operation_error", "operation_cancelled"} =>
      /\ mon[c].promise = "resolved"
      /\ "thrown" \notin DOMAIN mon[c].result

\* the server answered the call with a queued operation and its id
AnsweredQueued ==
  /\ call.api = "query"
  /\ ServerBody(call.env)["status"] = "queued"
  /\ Truthy(ServerBody(call.env)["operation_id"])

\* C23 (SpecQuery): when the query endpoint answers with status 'queued' and
\* an operation id and the caller passed maxWait = 0, executeQuery invokes
\* onQueueUpdate once with the queue position and the estimated wait of the
\* answer, throws a QueuedQueryError whose queueInfo is the answer verbatim,
\* and opens no SSE connection; in stream mode, once the body has been read.
C23_QueuedNoWaitThrows ==
  (AnsweredQueued /\ call.opts.maxWait = "0" /\ call.phase # "body") =>
    /\ call.phase = "thrown"
    /\ call.result = QueuedError(ServerBody(call.env))
    /\ sources = <<>>
    /\ calls = IF "onQueueUpdate" \in call.opts.cbs
               THEN <<[kind |-> "onQueueUpdate", cb |-> MonCb,
                       data |-> [position |-> ServerBody(call.env)["queue_position"],
                                 estimatedWait |->
                                   ServerBody(call.env)["estimated_wait_seconds"]]]>>
               ELSE <<>>

\* C25 (SpecGraph): createGraphAndWait is on its polling path exactly when
\* SSE is disabled or monitorOperation has rejected; when monitorOperation
\* resolves, the call ends in the same step without any status poll, with
\* the graph id on success and with a GraphOperationError when the result
\* reports a failure or carries no graph id.
C25_PollingFallback ==
  call.api = "graph" =>
    /\ call.path = "polling" <=>
         (~call.opts.useSSE \/ mon[call.client].promise = "rejected")
    /\ call.polls > 0 => call.path = "polling"
    /\ (call.opts.useSSE /\ mon[call.client].promise = "pending") => call.phase = "sse"
    /\ (call.opts.useSSE /\ mon[call.client].promise = "resolved") =>
         /\ call.polls = 0
         /\ call.path = "sse"
         /\ IF mon[call.client].result.success
               /\ Truthy(GraphIdOf(mon[call.client].result))
            THEN call.phase = "returned" /\ call.result = GraphIdOf(mon[call.client].result)
            ELSE /\ call.phase = "thrown"
                 /\ call.result.thrown = "GraphOperationError"
    /\ ~call.opts.useSSE => sources = <<>>

\* monitoring resolved with a failure the server reported: thrown, no poll
C25_Witness ==
  /\ call.api = "graph"
  /\ call.opts.useSSE
  /\ MaxPollAttempts(call) > 0
  /\ mon[call.client].promise = "resolved"
  /\ mon[call.client].reason = "operation_error"
  /\ call.phase = "thrown"
  /\ call.polls = 0

\* C26 (SpecDebug): a decodable event dispatched on a connected client
\* invokes every listener registered under '*', in addition to the listeners
\* registered for the kind of the event.
C26_WildcardNotified ==
  [][\A s \in 1..MaxSources, kind \in EventType :
       \A d \in Payloads(kind) :
         (IsConnected(1) /\ SrcTyped(s, kind, TRUE, <<>>, d)) =>
           LET L == sse[1].listeners
           IN  /\ Len(calls') >= Len(L[kind]) + Len(L[Wildcard])
               /\ \A i \in 1..Len(L[Wildcard]) :
                    \E j \in 1..Len(calls') : calls'[j].cb = L[Wildcard][i]]_vars

\* C27 (SpecDebug): an event or message whose payload cannot be decoded
\* invokes the 'parse_error' listeners and nothing else; the client, its
\* streams and its timers are as before: the connection stays open also for
\* a terminal kind, and the reconnect counter, lastEventId and the listener
\* map are unchanged.
C27_ParseErrorIsolated ==
  [][\A s \in 1..MaxSources :
       (\/ \E kind \in EventType : SrcTyped(s, kind, FALSE, <<>>, NoData)
        \/ SrcMessage(s, FALSE, <<>>)) =>
         /\ calls' = Notified(sse[1].listeners, "parse_error", [rawData |-> "malformed"])
         /\ sse' = sse
         /\ sources' = sources
         /\ timers' = timers
         /\ IsConnected(1) => IsConnected(1)']_vars

\* an undecodable payload reported to a 'parse_error' listener of a client
\* that is still connected and has received events before
C27_Witness ==
  /\ Len(calls) = 1
  /\ calls[1].kind = "parse_error"
  /\ IsConnected(1)
  /\ ~sse[1].closed
  /\ sse[1].lastEventId.def

\* C28 (SpecSession): the step that resolves the promise of monitorOperation
\* dispatches a decodable event of a terminal kind on a stream of its client,
\* and the result is the one of that kind; a step that settles the promise
\* without such an event is the expiry of the monitoring timeout or of the
\* connection timeout, and it rejects.
C28_ResolvesByTerminalEvent ==
  [][\A c \in Clients :
       (mon[c].promise \notin {"resolved", "rejected"}
          /\ mon'[c].promise \in {"resolved", "rejected"}) =>
         IF \E s \in 1..Len(sources), kind \in TerminalKinds :
              \E d \in Payloads(kind) :
                sources[s].client = c /\ SrcTyped(s, kind, TRUE, <<>>, d)
         THEN /\ mon'[c].promise = "resolved"
              /\ mon'[c].result.success \in BOOLEAN
              /\ mon'[c].reason \in TerminalKinds
         ELSE /\ mon'[c].promise = "rejected"
              /\ \/ MonitorTimeout(c)
                 \/ \E s \in 1..Len(sources) :
                      sources[s].client = c /\ ConnectTimeout(s)]_vars

\* resolved with the cancelled outcome by an operation_cancelled event
C28_Witness ==
  \E c \in Clients :
    /\ mon[c].promise = "resolved"
    /\ mon[c].reason = "operation_cancelled"
    /\ mon[c].result.error = "Operation cancelled"
    /\ cleanupTimeouts[mon[c].op] # 0

\* C30 (SpecLifecycle): the expiry of the monitoring timeout sends nothing to
\* the server: the cancel requests are as before. What it releases is local:
\* the registry entry and the grace timer of its operation, the connection
\* that entry holds, and the wait, which ends with the timeout rejection; the
\* sweep interval, the other registry entries and the other clients are as
\* before.
C30_TimeoutIsLocal ==
  [][\A c \in Clients :
       MonitorTimeout(c) =>
         /\ cancelRequests' = cancelRequests
         /\ cleanupInterval' = cleanupInterval
         /\ \A op \in Ops :
              IF op = mon[c].op
              THEN sseClients'[op] = 0 /\ cleanupTimeouts'[op] = 0
              ELSE sseClients'[op] = sseClients[op]
                     /\ cleanupTimeouts'[op] = cleanupTimeouts[op]
         /\ \A b \in Clients \ {c} : sse'[b] = sse[b] /\ mon'[b] = mon[b]
         /\ \A s \in 1..Len(sources) :
              sources[s].client # c => sources'[s] = sources[s]
         /\ sseClients[mon[c].op] = c =>
              (sse'[c].closed /\ sse'[c].eventSource = 0)
         /\ mon[c].promise = "pending"
         /\ mon'[c].promise = "rejected"
         /\ mon'[c].reason = "timeout"]_vars

\* the timeout has expired on a connected stream and the server was never
\* asked to cancel
C30_Witness ==
  \E c \in Clients :
    /\ mon[c].reason = "timeout"
    /\ mon[c].promise = "rejected"
    /\ sse[c].closed
    /\ \E s \in 1..Len(sources) : sources[s].client = c /\ sources[s].promise = "resolved"
    /\ \A op \in Ops : cancelRequests[op] = "none"

\* C29 (SpecPair): for two operations with distinct ids monitored at the same
\* time, a step that concerns one of them (its stream opening or timing out,
\* a terminal event on its stream, its grace cleanup, its monitoring timeout,
\* a cancelOperation of its id) leaves the other one's registry entry, grace
\* timer, cancel request, client (connection state and listeners), streams
\* and monitoring call unchanged: a step that changes any of these is none
\* of the steps of another operation.
C29_OperationsIsolated ==
  [][\A b \in Clients :
       (/\ hist[b].role = "monitor"
        /\ ~(/\ sseClients'[mon[b].op] = sseClients[mon[b].op]
              /\ cleanupTimeouts'[mon[b].op] = cleanupTimeouts[mon[b].op]
              /\ cancelRequests'[mon[b].op] = cancelRequests[mon[b].op]
              /\ sse'[b] = sse[b]
              /\ mon'[b] = mon[b]
              /\ \A s \in 1..Len(sources) :
                   sources[s].client = b => sources'[s] = sources[s]))
         => \A a \in Clients \ {b} :
              (hist[a].role = "monitor" /\ mon[a].op # mon[b].op) =>
                ~(\/ MonitorTimeout(a)
                  \/ CleanupTimer(mon[a].op)
                  \/ CancelOperation(mon[a].op)
                  \/ \E s \in 1..Len(sources) :
                       /\ sources[s].client = a
                       /\ \/ SrcOpen(s)
                          \/ ConnectTimeout(s)
                          \/ \E kind \in PairKinds : \E d \in Payloads(kind) :
                               SrcTyped(s, kind, TRUE, <<>>, d))]_vars

\* the first operation has ended and its grace cleanup has released it,
\* while the second is still connected, registered and waiting
C29_Witness ==
  /\ mon[1].promise = "resolved"
  /\ sseClients[mon[1].op] = 0
  /\ sse[1].closed
  /\ hist[2].role = "monitor"
  /\ mon[2].op # mon[1].op
  /\ mon[2].promise = "pending"
  /\ sseClients[mon[2].op] = 2
  /\ IsConnected(2)

\* C31 (SpecReplay): the sequence marker lastEventId of a client never
\* decreases from one step to the next, and the from_sequence of a reconnect
\* is never lower than the from_sequence of an earlier reconnect of the same
\* client.
C31_MarkerMonotonic ==
  [][\A c \in Clients :
       LET old == sse[c].lastEventId
           new == sse'[c].lastEventId
       IN  /\ TruthyStr(old) =>
                (TruthyStr(new) /\ ParseInt(new.s) >= ParseInt(old.s))
           /\ \A s \in 1..Len(sources), n \in 1..Len(sources') :
                (/\ n > Len(sources)
                 /\ sources[s].client = c
                 /\ sources'[n].client = c
                 /\ sources[s].cont = "reconnect"
                 /\ sources'[n].cont = "reconnect")
                  => sources'[n].from >= sources[s].from]_vars

\* C32 (SpecGraph): createGraphAndWait polls at most floor(timeout /
\* pollInterval) times, once per pollInterval, and is settled once the polls
\* are used up; and the last timer it has waited for, over SSE monitoring and
\* polling together, expired no later than timeout ms after the call.
C32_WaitsAtMostTimeout ==
  call.api = "graph" =>
    /\ call.polls <= MaxPollAttempts(call)
    /\ call.phase \in {"polling", "status"} => call.polls < MaxPollAttempts(call)
    /\ call.path = "polling" /\ mon[1].promise = "unused" =>
         call.waited = call.opts.pollInterval
                         * (call.polls + IF call.phase = "status" THEN 1 ELSE 0)
    /\ call.waited <= call.opts.timeout

\* C33 (SpecNdjson): however the body is split into reads, once the reader
\* is done parseNDJSONResponse has returned exactly when no line failed to
\* parse, with the rows (or data) of all chunks in order, their number, the
\* columns of the first chunk that has columns and the largest execution
\* time; otherwise it has thrown one error that counts every failed line and
\* names the first three, and no result; before that it has settled nothing.
C33_NdjsonReassembled ==
  call.api = "ndjson" =>
    /\ call.phase = "reading" => call.result = <<>>
    /\ call.phase # "reading" =>
         /\ Len(call.stream) = 0
         /\ IF BadLines(call.lines) = {}
            THEN /\ call.phase = "returned"
                 /\ call.result = [data |-> AllRows(call.lines),
                                   columns |-> FirstColumns(call.lines),
                                   row_count |-> Len(AllRows(call.lines)),
                                   execution_time_ms |-> MaxTime(call.lines)]
            ELSE /\ call.phase = "thrown"
                 /\ call.result.failed = Cardinality(BadLines(call.lines))
                 /\ \A i \in 1..Len(call.result.detail) :
                      call.result.detail[i] \in BadLines(call.lines)
                 /\ "data" \notin DOMAIN call.result

\* three chunks reassembled from reads that cut through them
C33_Witness ==
  /\ call.api = "ndjson"
  /\ call.phase = "returned"
  /\ call.lines = <<"c3", "c2", "c1">>
  /\ ~call.ended
  /\ call.cut
  /\ call.result.data = <<"r4", "r2", "r3", "r1">>
  /\ call.result.columns = <<"b">>
  /\ call.result.execution_time_ms = 9

\* C34 (SpecFanOut): every client that monitorOperation has created and that
\* has not been closed is the registry entry of its operation id, also when
\* the same id is monitored more than once.
C34_OpenClientsRegistered ==
  \A c \in Clients :
    (hist[c].role = "monitor" /\ ~sse[c].closed) => sseClients[mon[c].op] = c

\* C35 (SpecFanOut): a monitoring session that is still waiting, with its
\* client open and registered, is not closed or unregistered by the grace
\* timer of its id (set by another session: its own is set only when it
\* resolves), nor by the monitoring timeout or the connect failure of another
\* session of the same id.
C35_SessionsOfOneIdIsolated ==
  [][\A b \in Clients :
       (/\ hist[b].role = "monitor"
        /\ mon[b].promise = "pending"
        /\ ~sse[b].closed
        /\ sseClients[mon[b].op] = b
        /\ \/ CleanupTimer(mon[b].op)
           \/ \E a \in Clients \ {b} :
                /\ hist[a].role = "monitor"
                /\ mon[a].op = mon[b].op
                /\ \/ MonitorTimeout(a)
                   \/ \E s \in 1..Len(sources) :
                        sources[s].client = a /\ ConnectTimeout(s))
         => /\ ~sse'[b].closed
            /\ sseClients'[mon[b].op] = b]_vars

\* C36 (SpecLifecycle): a sweep leaves registered and open every client that
\* has not been closed, whether its stream is open, still connecting or
\* waiting for a reconnect, and leaves the promise of its call as it was.
C36_SweepKeepsLiveClients ==
  [][Sweep =>
       \A op \in Ops :
         LET c == sseClients[op] IN
         (c # 0 /\ ~sse[c].closed) =>
           /\ sseClients'[op] = c
           /\ ~sse'[c].closed
           /\ sse'[c].listeners = sse[c].listeners]_vars

\* C37 (SpecThrow): a decodable event of a terminal kind dispatched on a
\* connected client leaves the client closed and invokes no 'parse_error'
\* listener, also when a listener of the event throws.
C37_TerminalClosesDespiteThrow ==
  [][\A s \in 1..MaxSources, kind \in TerminalKinds :
       \A d \in Payloads(kind) :
         (IsConnected(1) /\ SrcTyped(s, kind, TRUE, <<>>, d)) =>
           /\ sse'[1].closed
           /\ ~IsConnected(1)'
           /\ \A i \in 1..Len(calls') : calls'[i].kind # "parse_error"]_vars

\* C38 (SpecSession): the step in which monitorOperation rejects because the
\* initial connect failed leaves the registry without an entry for the
\* operation id, the monitoring timeout of the call not pending, and no grace
\* timer pending for the id; the registry and the grace timers are as they
\* were before the call.
C38_ConnectFailureLeavesNothing ==
  [][\A c \in Clients :
       (mon[c].promise = "pending" /\ mon'[c].promise = "rejected"
          /\ mon'[c].reason = "connect") =>
         /\ sseClients'[mon[c].op] = 0
         /\ mon'[c].timeout # "pending"
         /\ cleanupTimeouts'[mon[c].op] = 0
         /\ sseClients' = [op \in Ops |-> 0]
         /\ cleanupTimeouts' = [op \in Ops |-> 0]]_vars

C38_Witness ==
  \E c \in Clients :
    /\ mon[c].promise = "rejected"
    /\ mon[c].reason = "connect"
    /\ mon[c].timeout = "off"
    /\ sseClients[mon[c].op] = 0
    /\ cleanupTimeouts[mon[c].op] = 0

\* C39 (SpecCopy): copyWithRetry sends at most maxRetries copy requests; a
\* further request is sent only by the expiry of the backoff wait of
\* min(1000 * 2^(attempt-1), 30000) ms that followed an attempt which threw or
\* ended in a failed result with a retryable error; an attempt that ends with
\* status completed, partial or accepted, or in a failure that is not
\* retryable, ends the call with that result and without a new request.
C39_RetryOnlyAfterRetryableFailure ==
  [][/\ call'.api = "copyWithRetry" => call'.requests <= call'.maxRetries
     /\ (call.api = "copyWithRetry" /\ call'.requests > call.requests) =>
          /\ CopyRetryTimer
          /\ call.last.thrown
               \/ (call.last.status = "failed" /\ IsRetryableError(call.last.error))
          /\ call'.slept = IF CopyBackoffMs * Pow2(call.attempt - 1) < CopyBackoffCapMs
                           THEN CopyBackoffMs * Pow2(call.attempt - 1)
                           ELSE CopyBackoffCapMs
     /\ (call.api = "copyWithRetry" /\ call'.settled > call.settled
           /\ ~call'.last.thrown
           /\ \/ call'.last.status \in {"completed", "partial", "accepted"}
              \/ (call'.last.status = "failed"
                    /\ ~IsRetryableError(call'.last.error))) =>
          /\ call'.requests = call.requests
          /\ call'.phase = "returned"
          /\ call'.result = call'.last]_vars

====
